---- MODULE Spec2Model ----
(***************************************************************************)
(* Streaming analysis front end of ai-hedge-fund.                          *)
(*                                                                         *)
(*   App.tsx            runWatchlistAnalysisHandler, fetchInitialData      *)
(*   SimpleRunForm.tsx  validateForm, handleSubmit                         *)
(*   AnalysisProgressMatrix.tsx / AnalysisResults.tsx                      *)
(*                      getCellStatus, getAnalysisProgress                 *)
(*                                                                         *)
(* Text is a sequence of tokens.  A token stands for the substring it is   *)
(* named after; the stream text is the concatenation of its tokens.  The   *)
(* transport cuts the text into chunks between tokens.                     *)
(***************************************************************************)
EXTENDS Integers, Sequences, FiniteSets, TLC

\* ------------------------------------------------------------------ tokens
\* the line prefixes of the protocol
EV == "event: "
DT == "data: "
\* the line feed character (U+000A)
LF == "\n"
\* the backslash character (U+005C) and the letter n
BSL == "\\"
LN == "n"
\* a data line that is no JSON text ("this is not json" in App.test.tsx)
NOTJSON == "this is not json"

\* optional values: undefined / null is None
None == <<>>
Some(x) == <<x>>

\* ------------------------------------------------------- string primitives
\* String.prototype.startsWith on token sequences, for a one-token prefix
StartsWith(s, prefix) == Len(s) > 0 /\ s[1] = prefix

\* the suffix of s from (1-based) position i
Drop(s, i) == SubSeq(s, i, Len(s))

\* smallest i with s[i..] starting with sep, 0 when there is none
IndexOfSeq(s, sep) ==
  LET hits == {i \in 1..(Len(s) - Len(sep) + 1) : SubSeq(s, i, i + Len(sep) - 1) = sep}
  IN IF hits = {} THEN 0 ELSE CHOOSE i \in hits : \A j \in hits : i <= j

\* String.prototype.split(sep): the pieces between the occurrences of sep
RECURSIVE Split(_, _)
Split(s, sep) ==
  LET i == IndexOfSeq(s, sep)
  IN IF i = 0 THEN <<s>>
     ELSE <<SubSeq(s, 1, i - 1)>> \o Split(Drop(s, i + Len(sep)), sep)

\* Array.prototype.indexOf, 1-based, 0 when absent
IndexOf(arr, x) ==
  LET hits == {i \in 1..Len(arr) : arr[i] = x}
  IN IF hits = {} THEN 0 ELSE CHOOSE i \in hits : \A j \in hits : i <= j

\* the elements of a sequence
Range(s) == {s[i] : i \in 1..Len(s)}

\* no element occurs twice
NoDup(s) == \A i, j \in 1..Len(s) : s[i] = s[j] => i = j

\* -------------------------------------------------------------------- JSON
\* A payload token is named by the JSON text it stands for.
J_START == "{\"message\":\"Analysis started\"}"
J_ERR == "{\"message\":\"Backend processing error\"}"
J_EMPTY == "{}"
J_NULL == "null"
J_A1 == "{\"data\":{\"analyst_signals\":{\"AAPL\":{\"technicals_agent\":{\"signal\":\"bullish\",\"confidence\":80}}}}}"
J_A2 == "{\"data\":{\"analyst_signals\":{\"AAPL\":{\"sentiment_analyst_agent\":{\"signal\":\"bearish\",\"confidence\":60}}}}}"
J_MA == "{\"data\":{\"analyst_signals\":{\"MSFT\":{\"technicals_agent\":{\"signal\":\"neutral\",\"confidence\":50}},\"AAPL\":{\"technicals_agent\":{\"signal\":\"bearish\",\"confidence\":70}}}}}"
J_WIRE == "{\"data\":{\"analyst_signals\":{\"warren_buffett_agent\":{\"AAPL\":{\"signal\":\"bullish\",\"confidence\":80}}}}}"
J_DEC == "{\"data\":{\"decisions\":{\"AAPL\":{\"action\":\"buy\",\"confidence\":90}},\"analyst_signals\":{\"AAPL\":{\"technicals_agent\":{\"signal\":\"bullish\",\"confidence\":80}}}}}"
J_TOP == "{\"decisions\":{},\"analyst_signals\":{\"MSFT\":{\"fundamentals_analyst_agent\":{\"signal\":\"Buy\",\"confidence\":85}}}}"

\* one key/value pair of an object, in Object.entries order
KV(k, v) == [k |-> k, v |-> v]
\* an agent's signal object
Sig(signal, confidence) == [signal |-> Some(signal), confidence |-> Some(confidence), reasoning |-> None]

\* what JSON.parse returns for the payload tokens: the members the handlers read
JsonValue(j) ==
  CASE j = J_START -> [isNull |-> FALSE, message |-> Some("Analysis started"), data |-> None]
    [] j = J_ERR   -> [isNull |-> FALSE, message |-> Some("Backend processing error"), data |-> None]
    [] j = J_EMPTY -> [isNull |-> FALSE, message |-> None, data |-> None]
    [] j = J_NULL  -> [isNull |-> TRUE, message |-> None, data |-> None]
    [] j = J_A1    -> [isNull |-> FALSE, message |-> None, data |-> Some([analyst_signals |-> Some(
                         <<KV("AAPL", <<KV("technicals_agent", Sig("bullish", 80))>>)>>)])]
    [] j = J_A2    -> [isNull |-> FALSE, message |-> None, data |-> Some([analyst_signals |-> Some(
                         <<KV("AAPL", <<KV("sentiment_analyst_agent", Sig("bearish", 60))>>)>>)])]
    [] j = J_MA    -> [isNull |-> FALSE, message |-> None, data |-> Some([analyst_signals |-> Some(
                         <<KV("MSFT", <<KV("technicals_agent", Sig("neutral", 50))>>),
                           KV("AAPL", <<KV("technicals_agent", Sig("bearish", 70))>>)>>)])]
    [] j = J_WIRE  -> [isNull |-> FALSE, message |-> None, data |-> Some([analyst_signals |-> Some(
                         <<KV("warren_buffett_agent", <<KV("AAPL", Sig("bullish", 80))>>)>>)])]
    [] j = J_DEC   -> [isNull |-> FALSE, message |-> None, data |-> Some([analyst_signals |-> Some(
                         <<KV("AAPL", <<KV("technicals_agent", Sig("bullish", 80))>>)>>)])]
    [] j = J_TOP   -> [isNull |-> FALSE, message |-> None, data |-> None]

JsonTexts == {J_START, J_ERR, J_EMPTY, J_NULL, J_A1, J_A2, J_MA, J_WIRE, J_DEC, J_TOP}

\* the decisions member of a complete payload, which the handlers never read
Decisions(j) ==
  IF j = J_DEC THEN <<KV("AAPL", [action |-> "buy", confidence |-> 90])>> ELSE <<>>

\* JSON.parse skips white space around the value
RECURSIVE TrimWs(_)
TrimWs(s) ==
  IF Len(s) > 0 /\ s[1] = LF THEN TrimWs(Tail(s))
  ELSE IF Len(s) > 0 /\ s[Len(s)] = LF THEN TrimWs(SubSeq(s, 1, Len(s) - 1))
  ELSE s

\* JSON.parse(text) returns (TRUE) or throws SyntaxError (FALSE)
JsonParses(text) == Len(TrimWs(text)) = 1 /\ TrimWs(text)[1] \in JsonTexts
JsonParse(text) == JsonValue(TrimWs(text)[1])

\* ----------------------------------------------------------- the dataset
ON_DEMAND_STYLE_KEY == "On-Demand Analysis"

\* allAnalysisData: null, or a map from source key to {styleName, data}
NoStyles == [k \in {} |-> <<>>]
NullData == [isNull |-> TRUE, styles |-> NoStyles]

\* prevData?.[ON_DEMAND_STYLE_KEY]?.data || []
OnDemandItems(d) ==
  IF ~d.isNull /\ ON_DEMAND_STYLE_KEY \in DOMAIN d.styles
  THEN d.styles[ON_DEMAND_STYLE_KEY].data ELSE <<>>

\* Object.entries(agentSignalsForTicker).map(...)
TransformAgentSignals(agentSignalsForTicker) ==
  [i \in 1..Len(agentSignalsForTicker) |->
     [agent_name |-> agentSignalsForTicker[i].k,
      signal     |-> agentSignalsForTicker[i].v.signal,
      confidence |-> agentSignalsForTicker[i].v.confidence,
      reasoning  |-> agentSignalsForTicker[i].v.reasoning]]

NewItem(ticker, agentSignalsForTicker) ==
  [ticker |-> ticker,
   agent_signals |-> TransformAgentSignals(agentSignalsForTicker),
   signal |-> None,
   confidence |-> None]

\* items.findIndex(item => item.ticker === ticker), 1-based, 0 when absent
FindIndex(items, ticker) ==
  LET hits == {i \in 1..Len(items) : items[i].ticker = ticker}
  IN IF hits = {} THEN 0 ELSE CHOOSE i \in hits : \A j \in hits : i <= j

\* a variant of the write that always appends
PutItemAppend(items, newItem) == Append(items, newItem)

\* replace the entry of the item's ticker, or push the item
PutItem(items, newItem) ==
  LET existingItemIndex == FindIndex(items, newItem.ticker)
  IN IF existingItemIndex > 0
     THEN [items EXCEPT ![existingItemIndex] = newItem]
     ELSE Append(items, newItem)

\* the for loop over Object.entries(eventData.data.analyst_signals)
RECURSIVE MergeEntries(_, _)
MergeEntries(items, entries) ==
  IF entries = <<>> THEN items
  ELSE MergeEntries(PutItem(items, NewItem(entries[1].k, entries[1].v)), Tail(entries))

\* a variant of the updater that does not spread prevData
MergeCompleteFresh(prevData, analyst_signals) ==
  [isNull |-> FALSE,
   styles |-> (ON_DEMAND_STYLE_KEY :>
                 [styleName |-> "On-Demand Analysis",
                  data |-> MergeEntries(<<>>, analyst_signals)])]

\* the updater given to setAllAnalysisData on a complete event
MergeComplete(prevData, analyst_signals) ==
  [isNull |-> FALSE,
   styles |-> (ON_DEMAND_STYLE_KEY :>
                 [styleName |-> "On-Demand Analysis",
                  data |-> MergeEntries(OnDemandItems(prevData), analyst_signals)])
              @@ prevData.styles]

\* ------------------------------------------- App.tsx: the frame dispatcher
\* What the synchronous part of one loop iteration reads and writes:
\*   buffer, data (allAnalysisData), analysisError, cancelled (reader.cancel()
\*   was called), delivered (the "SSE Event:" console log: <<eventType, payload>>),
\*   parseErrors (the "Error parsing SSE event data string:" console log).
DEFAULT_ERROR == "An error occurred during analysis."

\* the line separator line 221 splits on: a backslash followed by the letter n
LINE_SEP == <<BSL, LN>>

\* the body of the if / else-if chain on eventType, for a payload that parsed
Dispatch(st, eventType, eventData) ==
  CASE eventType = <<"start">> -> st
    [] eventType = <<"progress">> -> st
    [] eventType = <<"complete">> ->
         \* eventData.data throws TypeError for null, caught at line 294
         IF eventData.isNull THEN st
         ELSE IF eventData.data # None /\ eventData.data[1].analyst_signals # None
         THEN [st EXCEPT !.data = MergeComplete(@, eventData.data[1].analyst_signals[1])]
         ELSE st
    [] eventType = <<"error">> ->
         \* eventData.message throws TypeError for null, caught at line 294
         IF eventData.isNull THEN st
         ELSE [st EXCEPT !.analysisError =
                           IF eventData.message # None THEN eventData.message
                           ELSE Some(DEFAULT_ERROR),
                         !.cancelled = TRUE,
                         !.brk = TRUE]
    [] OTHER -> st

\* lines.indexOf(line) + 1, for the line at position i
DataLineIndex(lines, i) == IndexOf(lines, lines[i]) + 1

\* for (const line of lines) { ... }, from position i on
RECURSIVE ProcessLines(_, _, _)
ProcessLines(lines, i, st) ==
  IF i > Len(lines) \/ st.brk THEN st
  ELSE
    LET line == lines[i]
        dataLineIndex == DataLineIndex(lines, i)
    IN IF StartsWith(line, EV)
          /\ dataLineIndex <= Len(lines)
          /\ StartsWith(lines[dataLineIndex], DT)
       THEN LET eventType == Tail(line)
                eventDataString == Tail(lines[dataLineIndex])
            IN IF ~JsonParses(eventDataString)
               THEN ProcessLines(lines, i + 1,
                      [st EXCEPT !.parseErrors = Append(@, eventDataString)])
               ELSE ProcessLines(lines, i + 1,
                      Dispatch([st EXCEPT !.delivered = Append(@, <<eventType, TrimWs(eventDataString)[1]>>)],
                               eventType, JsonParse(eventDataString)))
       ELSE ProcessLines(lines, i + 1, st)

\* one iteration of the read loop after reader.read() returned a chunk
ProcessChunk(st, chunk) ==
  LET lines == Split(st.buffer \o chunk, LINE_SEP)
  IN [ProcessLines(SubSeq(lines, 1, Len(lines) - 1), 1,
                   [st EXCEPT !.buffer = lines[Len(lines)], !.brk = FALSE])
      EXCEPT !.brk = FALSE]

\* ------------------------------------------------------------ the streams
\* A frame of the stream: its event type, its data line and whether the data
\* line is malformed (no JSON text).
Frame(type, data) == [type |-> type, data |-> data, bad |-> data \notin JsonTexts]

\* the separators: a line feed (the wire format, createMockSseStream in
\* App.test.tsx) or the two characters backslash, n
SEP_LF == <<LF>>
SEP_ESC == <<BSL, LN>>

\* `event: ${type}<sep>data: ${data}<sep><sep>`
EncodeFrame(f, sep) == <<EV, f.type>> \o sep \o <<DT, f.data>> \o sep \o sep

RECURSIVE Encode(_, _)
Encode(frames, sep) ==
  IF frames = <<>> THEN <<>> ELSE EncodeFrame(frames[1], sep) \o Encode(Tail(frames), sep)

\* for each token of the encoded text, whether it belongs to a malformed frame
RECURSIVE MaskOf(_, _)
MaskOf(frames, sep) ==
  IF frames = <<>> THEN <<>>
  ELSE [i \in 1..Len(EncodeFrame(frames[1], sep)) |-> frames[1].bad] \o MaskOf(Tail(frames), sep)

Stream(frames, sep) ==
  [frames |-> frames, sep |-> sep, text |-> Encode(frames, sep), mask |-> MaskOf(frames, sep)]

\* the frame lists the backend answers with
FramesStartComplete == <<Frame("start", J_START), Frame("complete", J_A1)>>
FramesTwoCompletes == <<Frame("complete", J_A1), Frame("complete", J_A2)>>
FramesErrorMid == <<Frame("complete", J_MA), Frame("error", J_ERR), Frame("complete", J_A2)>>
FramesBadComplete == <<Frame("complete", NOTJSON), Frame("complete", J_A1)>>
FramesBadProgress == <<Frame("start", J_START), Frame("progress", NOTJSON), Frame("complete", J_A1)>>
FramesStartError == <<Frame("start", J_START), Frame("error", J_ERR)>>
FramesUnknown == <<Frame("ping", J_A1), Frame("error", J_EMPTY)>>
FramesWire == <<Frame("complete", J_WIRE)>>
FramesDecision == <<Frame("complete", J_DEC)>>

FrameLists ==
  {FramesStartComplete, FramesTwoCompletes, FramesErrorMid, FramesBadComplete,
   FramesBadProgress, FramesStartError, FramesUnknown, FramesWire,
   FramesDecision}

Streams == {Stream(fl, sep) : fl \in FrameLists, sep \in {SEP_LF, SEP_ESC}}

\* the elements of s whose mask entry is FALSE
RECURSIVE Unmasked(_, _)
Unmasked(s, mask) ==
  IF s = <<>> THEN <<>>
  ELSE (IF mask[1] THEN <<>> ELSE <<s[1]>>) \o Unmasked(Tail(s), Tail(mask))

\* ------------------------------------------------------------------ state
VARIABLES
  \* App.tsx, component state
  allAnalysisData,    \* useState<AllAnalysisData | null>(null)
  isLoading,          \* useState(true)
  error,              \* useState<string | null>(null)
  isLoadingAnalysis,  \* useState(false)
  analysisError,      \* useState<string | null>(null)
  \* App.tsx, the calls in flight
  load,               \* fetchInitialData: its position and its local fetchedData
  runs,               \* runWatchlistAnalysisHandler: one record per call that passed the guard
  runCalls,           \* number of calls of runWatchlistAnalysisHandler so far
  cancelRequested,    \* the caller has asked to cancel the run
  \* the same program fed the same chunks without the tokens of malformed frames
  twinData,
  \* SimpleRunForm.tsx, the state of the form component
  tickers,            \* the tickers input, a string
  selectedAgents,     \* the agents picked, in the order they were picked
  startDate,          \* "" or a date
  endDate,            \* "" or a date
  initialCash,        \* a number
  progressMessages,   \* the start and progress events shown
  finalResult,        \* null, or the data of the last CompleteEvent
  srfError,           \* the error state: null, an ErrorEvent's data, or a message
  isRunning,          \* the submit button is disabled while it is TRUE
  formErrors,         \* field name -> message, of the last validation
  \* SimpleRunForm.tsx, the submit in flight
  srf,                \* handleSubmit: its position, the stream left, its local buffer
  fetchCalls,         \* number of requests issued by handleSubmit so far
  lastRequest,        \* the body of the last request issued
  edits,              \* number of onChange events of the inputs so far
  \* node context, read by AnalysisResults.tsx and AnalysisProgressMatrix.tsx
  agentNodeData,      \* agent key -> the agent's node record
  \* MonitorView, what the last rendered watchlist row shows
  prominent,          \* null before a row is rendered, then its ticker and prominent signal
  \* AnalysisResultsTable.tsx, what the last rendered results table shows
  resultsTable,       \* null before the table is rendered, then its props and its cells
  \* App.tsx, the watchlist of the monitor tab
  watchlist,          \* the tickers of the watchlist, in order
  monitorTickerInput, \* the text of the add-ticker input
  lastAdd             \* null, or the last add: its input, the watchlist before, what it returned

appVars == <<allAnalysisData, isLoading, error, isLoadingAnalysis, analysisError,
             load, runs, runCalls, cancelRequested, twinData>>

formVars == <<tickers, selectedAgents, startDate, endDate, initialCash, progressMessages,
              finalResult, srfError, isRunning, formErrors, srf, fetchCalls, lastRequest, edits>>

\* what the views read and show
watchVars == <<watchlist, monitorTickerInput, lastAdd>>
progVars == <<agentNodeData, prominent, resultsTable, watchVars>>

vars == <<appVars, formVars, progVars>>

\* most calls of runWatchlistAnalysisHandler
MaxCalls == 2
\* most runs started, in the one-run and in the several-runs specification
MaxRuns == 1
MaxSeqRuns == 2

\* useState(['AAPL', 'TSLA']), line 46: the initial dummy watchlist
InitialWatchlist == <<(<<"A", "A", "P", "L">>), (<<"T", "S", "L", "A">>)>>

\* ------------------------------------------------ App.tsx: fetchInitialData
CACHE_KEY == "style_A_key"
\* the item the cached result holds: flat, with the agent's name on the item
\* and no agent_signals member (an absent list is written <<>>)
CachedItem ==
  [ticker |-> "AAPL", agent_name |-> "TestAgent", agent_signals |-> <<>>,
   signal |-> Some("Buy"), confidence |-> Some(70)]

\* key.split('_')[0].replace(/([A-Z])/g, ' $1').trim() || "Analysis", for CACHE_KEY
StyleNameFromKey(key) == "style"

\* setAllAnalysisData(fetchedData); finally setIsLoading(false)
LoadFinish(fetchedData) ==
  /\ allAnalysisData' = [isNull |-> FALSE, styles |-> fetchedData]
  /\ twinData' = [isNull |-> FALSE, styles |-> fetchedData]
  /\ isLoading' = FALSE
  /\ load' = [pc |-> "done", keys |-> <<>>, fetchedData |-> NoStyles]

\* api.get('/cached-analysis/available-results-keys') resolves
LoadKeysOk(keys) ==
  /\ load.pc = "keys"
  /\ IF keys = <<>>
     THEN LoadFinish(NoStyles)
     ELSE /\ load' = [pc |-> "results", keys |-> keys, fetchedData |-> NoStyles]
          /\ UNCHANGED <<allAnalysisData, twinData, isLoading>>
  /\ UNCHANGED <<formVars, progVars>>
  /\ UNCHANGED <<error, isLoadingAnalysis, analysisError, runs, runCalls, cancelRequested>>

\* the path of the keys request
KEYS_PATH == "/cached-analysis/available-results-keys"

\* api.get of services/api.ts, line 45: the message of the error it throws for
\* a response that is not ok, errorBody being the text of the response
ApiGetError(status, path, errorBody) ==
  "HTTP error! status: " \o ToString(status) \o ", path: " \o path \o ", details: " \o errorBody

\* the messages of the errors the keys request rejects with: a 500 response
\* with the body "boom" and with an empty body, a rejected fetch, and an
\* error without message (a replaced api.get can reject with one)
LoadRejections ==
  {ApiGetError(500, KEYS_PATH, "boom"), ApiGetError(500, KEYS_PATH, ""), "Failed to fetch", ""}

\* api.get('/cached-analysis/available-results-keys') rejects: the outer catch,
\* setError(e.message || "Failed to load data.")
LoadKeysFail(message) ==
  /\ load.pc = "keys"
  /\ error' = Some(IF message # "" THEN message ELSE "Failed to load data.")
  /\ isLoading' = FALSE
  /\ load' = [pc |-> "done", keys |-> <<>>, fetchedData |-> NoStyles]
  /\ UNCHANGED <<formVars, progVars>>
  /\ UNCHANGED <<allAnalysisData, twinData, isLoadingAnalysis, analysisError, runs, runCalls,
                 cancelRequested>>

\* api.get(`/cached-analysis/results/${key}`) resolves (ok) or rejects, for the next key
LoadResult(ok) ==
  /\ load.pc = "results"
  /\ LET key == load.keys[1]
         fetched == (key :> [styleName |-> StyleNameFromKey(key),
                             data |-> IF ok THEN <<CachedItem>> ELSE <<>>])
                    @@ load.fetchedData
     IN IF Len(load.keys) = 1
        THEN LoadFinish(fetched)
        ELSE /\ load' = [load EXCEPT !.keys = Tail(@), !.fetchedData = fetched]
             /\ UNCHANGED <<allAnalysisData, twinData, isLoading>>
  /\ UNCHANGED <<formVars, progVars>>
  /\ UNCHANGED <<error, isLoadingAnalysis, analysisError, runs, runCalls, cancelRequested>>

\* ------------------------------------- App.tsx: runWatchlistAnalysisHandler
\* eventSource: whether line 186 opened an EventSource connection; the handler
\* never closes it
NewRun ==
  [pc |-> "fetch", eventSource |-> TRUE,
   frames |-> <<>>, sep |-> <<>>, text |-> <<>>, mask |-> <<>>,
   buffer |-> <<>>, cancelled |-> FALSE,
   delivered |-> <<>>, parseErrors |-> <<>>,
   twinBuffer |-> <<>>, twinCancelled |-> FALSE]

\* the message the catch of lines 302-306 records:
\* error.message || "An unexpected error occurred when starting analysis."
CatchMessage(message) ==
  IF message # "" THEN message
  ELSE "An unexpected error occurred when starting analysis."

\* what line 186 throws when the api module has no defaults member (the
\* module of services/api.ts exports get only) or when the environment has no
\* EventSource
SetupErrors ==
  {"Cannot read properties of undefined (reading 'baseURL')", "EventSource is not defined"}

\* the module and the environment are the same for every call: line 186
\* threw in all the runs so far, or in none
SetupThrew(rs) == \A i \in 1..Len(rs) : ~rs[i].eventSource
SetupPassed(rs) == \A i \in 1..Len(rs) : rs[i].eventSource

\* line 170: if (isLoadingAnalysis) return;
RunGuard == ~isLoadingAnalysis

\* the handler is called and starts a run: lines 170-202, up to await fetch
RunStart(limit) ==
  /\ runCalls < limit + MaxCalls
  /\ Len(runs) < limit
  /\ RunGuard
  /\ SetupPassed(runs)
  /\ runCalls' = runCalls + 1
  /\ isLoadingAnalysis' = TRUE
  /\ analysisError' = None
  /\ runs' = Append(runs, NewRun)
  /\ UNCHANGED <<formVars, progVars>>
  /\ UNCHANGED <<allAnalysisData, twinData, isLoading, error, load, cancelRequested>>

\* the handler is called and line 186 throws before fetch is called: the catch
\* and the finally run in the same step
RunStartThrows(limit, message) ==
  /\ runCalls < limit + MaxCalls
  /\ Len(runs) < limit
  /\ RunGuard
  /\ SetupThrew(runs)
  /\ runCalls' = runCalls + 1
  /\ isLoadingAnalysis' = FALSE
  /\ analysisError' = Some(CatchMessage(message))
  /\ runs' = Append(runs, [NewRun EXCEPT !.pc = "failed", !.eventSource = FALSE])
  /\ UNCHANGED <<formVars, progVars>>
  /\ UNCHANGED <<allAnalysisData, twinData, isLoading, error, load, cancelRequested>>

\* the handler is called while a run is loading: line 170 returns
RunRejected(limit) ==
  /\ runCalls < limit + MaxCalls
  /\ ~RunGuard
  /\ runCalls' = runCalls + 1
  /\ UNCHANGED <<formVars, progVars>>
  /\ UNCHANGED <<allAnalysisData, twinData, isLoading, error, load, isLoadingAnalysis,
                 analysisError, runs, cancelRequested>>

\* a variant of the failed request that records no error
FetchFailSilent(i, outcome) ==
  /\ runs[i].pc = "fetch"
  /\ isLoadingAnalysis' = FALSE
  /\ runs' = [runs EXCEPT ![i].pc = "done"]
  /\ UNCHANGED <<formVars, progVars>>
  /\ UNCHANGED <<allAnalysisData, twinData, isLoading, error, load, runCalls, cancelRequested,
                 analysisError>>

\* the ways the request fails: fetch rejects, or its response is not ok or
\* has no body (body is then the text response.text() gives)
FetchFailures ==
  {[kind |-> "reject", message |-> "Failed to fetch", status |-> 0, body |-> ""],
   [kind |-> "response", message |-> "", status |-> 500, body |-> "boom"],
   [kind |-> "response", message |-> "", status |-> 200, body |-> ""]}

\* the message of the error that reaches the catch: the rejection's own, or
\* `Failed to start analysis: ${response.status} ${errorData}` of line 207
FetchFailMessage(outcome) ==
  IF outcome.kind = "reject" THEN outcome.message
  ELSE "Failed to start analysis: " \o ToString(outcome.status) \o " " \o outcome.body

\* fetch rejects, or the response is not ok or has no body: the catch and the finally
FetchFail(i, outcome) ==
  /\ runs[i].pc = "fetch"
  /\ analysisError' = Some(CatchMessage(FetchFailMessage(outcome)))
  /\ isLoadingAnalysis' = FALSE
  /\ runs' = [runs EXCEPT ![i].pc = "done"]
  /\ UNCHANGED <<formVars, progVars>>
  /\ UNCHANGED <<allAnalysisData, twinData, isLoading, error, load, runCalls, cancelRequested>>

\* fetch resolves with a streamed body: lines 212-214
FetchOk(i, stream) ==
  /\ runs[i].pc = "fetch"
  /\ runs' = [runs EXCEPT ![i].pc = "read", ![i].frames = stream.frames, ![i].sep = stream.sep,
                          ![i].text = stream.text, ![i].mask = stream.mask]
  /\ UNCHANGED <<formVars, progVars>>
  /\ UNCHANGED <<allAnalysisData, twinData, isLoading, error, load, isLoadingAnalysis,
                 analysisError, runCalls, cancelRequested>>

\* the state one loop iteration works on
LoopState(buffer, data, err, cancelled, delivered, parseErrors) ==
  [buffer |-> buffer, data |-> data, analysisError |-> err, cancelled |-> cancelled,
   delivered |-> delivered, parseErrors |-> parseErrors, brk |-> FALSE]

\* reader.read() resolves with the next k tokens: lines 217-300
ReadChunk(i, k) ==
  /\ runs[i].pc = "read"
  /\ ~runs[i].cancelled
  /\ k \in 1..Len(runs[i].text)
  /\ LET r == runs[i]
         chunk == SubSeq(r.text, 1, k)
         st == ProcessChunk(LoopState(r.buffer, allAnalysisData, analysisError, r.cancelled,
                                      r.delivered, r.parseErrors), chunk)
         tw == IF r.twinCancelled
               THEN LoopState(r.twinBuffer, twinData, None, TRUE, <<>>, <<>>)
               ELSE ProcessChunk(LoopState(r.twinBuffer, twinData, None, FALSE, <<>>, <<>>),
                                 Unmasked(chunk, SubSeq(r.mask, 1, k)))
     IN /\ allAnalysisData' = st.data
        /\ analysisError' = st.analysisError
        /\ twinData' = tw.data
        /\ runs' = [runs EXCEPT ![i] =
                      [r EXCEPT !.text = Drop(r.text, k + 1), !.mask = Drop(r.mask, k + 1),
                                !.buffer = st.buffer, !.cancelled = st.cancelled,
                                !.delivered = st.delivered, !.parseErrors = st.parseErrors,
                                !.twinBuffer = tw.buffer, !.twinCancelled = tw.cancelled]]
  /\ UNCHANGED <<formVars, progVars>>
  /\ UNCHANGED <<isLoading, error, load, isLoadingAnalysis, runCalls, cancelRequested>>

\* a variant of the end of the stream without the finally block
ReadDoneNoFinally(i) ==
  /\ runs[i].pc = "read"
  /\ runs[i].cancelled \/ runs[i].text = <<>>
  /\ runs' = [runs EXCEPT ![i].pc = "done"]
  /\ UNCHANGED <<formVars, progVars>>
  /\ UNCHANGED <<allAnalysisData, twinData, isLoading, error, load, analysisError, runCalls,
                 cancelRequested, isLoadingAnalysis>>

\* reader.read() resolves with done (the stream ended, or reader.cancel() closed
\* it): line 218 breaks, the finally clears the loading flag
ReadDone(i) ==
  /\ runs[i].pc = "read"
  /\ runs[i].cancelled \/ runs[i].text = <<>>
  /\ isLoadingAnalysis' = FALSE
  /\ runs' = [runs EXCEPT ![i].pc = "done"]
  /\ UNCHANGED <<formVars, progVars>>
  /\ UNCHANGED <<allAnalysisData, twinData, isLoading, error, load, analysisError, runCalls,
                 cancelRequested>>

\* the messages of the errors reader.read() rejects with; "" is an error
\* without message
ReadRejections == {"terminated", ""}

\* reader.read() rejects (the connection breaks): the catch of lines 302-306
\* and the finally
ReadFail(i, message) ==
  /\ runs[i].pc = "read"
  /\ ~runs[i].cancelled
  /\ analysisError' = Some(CatchMessage(message))
  /\ isLoadingAnalysis' = FALSE
  /\ runs' = [runs EXCEPT ![i].pc = "failed"]
  /\ UNCHANGED <<formVars, progVars>>
  /\ UNCHANGED <<allAnalysisData, twinData, isLoading, error, load, runCalls, cancelRequested>>

\* the caller asks to cancel the run in flight; the handler takes no signal
\* and reads no flag, so nothing it reads changes
CancelRun ==
  /\ ~cancelRequested
  /\ \E i \in 1..Len(runs) : runs[i].pc = "read"
  /\ cancelRequested' = TRUE
  /\ UNCHANGED <<formVars, progVars>>
  /\ UNCHANGED <<allAnalysisData, twinData, isLoading, error, load, isLoadingAnalysis,
                 analysisError, runs, runCalls>>

\* ------------------------------------------- SimpleRunForm.tsx: the form
SP == " "
COMMA == ","
\* the characters the tickers input is typed from, and its greatest length
InputChars == {SP, COMMA, "A", "a"}
MaxInputLen == 2

RECURSIVE StringsUpTo(_)
StringsUpTo(n) ==
  IF n = 0 THEN {<<>>}
  ELSE LET shorter == StringsUpTo(n - 1)
       IN shorter \cup {Append(s, c) : s \in shorter, c \in InputChars}

TickerInputs == StringsUpTo(MaxInputLen)

\* String.prototype.trim
RECURSIVE Trim(_)
Trim(s) ==
  IF Len(s) > 0 /\ s[1] = SP THEN Trim(Tail(s))
  ELSE IF Len(s) > 0 /\ s[Len(s)] = SP THEN Trim(SubSeq(s, 1, Len(s) - 1))
  ELSE s

\* String.prototype.toUpperCase
toUpperCase(s) == [i \in 1..Len(s) |-> IF s[i] = "a" THEN "A" ELSE s[i]]

\* .filter(t => t.length > 0)
RECURSIVE FilterNonEmpty(_)
FilterNonEmpty(parts) ==
  IF parts = <<>> THEN <<>>
  ELSE (IF Len(parts[1]) > 0 THEN <<parts[1]>> ELSE <<>>) \o FilterNonEmpty(Tail(parts))

\* line 139: tickers.split(',').map(t => t.trim()).filter(t => t.length > 0)
SplitTickers(input) ==
  LET parts == Split(input, <<COMMA>>)
  IN FilterNonEmpty([i \in 1..Len(parts) |-> Trim(parts[i])])

\* the agents of ALL_AGENTS the model picks from
AgentChoices == {"Technicals", "Sentiment"}

\* the values of the date inputs and their order as Date objects
D1 == "2024-01-01"
D2 == "2024-03-01"
StartDateInputs == {"", D1, D2}
EndDateInputs == {"", D1}
DateOrd(d) == CASE d = D1 -> 1 [] d = D2 -> 2

\* the values of the cash input
DEFAULT_CASH == 10000
CashInputs == {DEFAULT_CASH, 0}

Fields == {"tickers", "selectedAgents", "initialCash", "startDate", "endDate"}

\* validateForm: the message it records for a field, if any
FieldError(k) ==
  CASE k = "tickers" ->
         IF Trim(tickers) = <<>> THEN Some("Tickers are required.") ELSE None
    [] k = "selectedAgents" ->
         IF Len(selectedAgents) = 0 THEN Some("At least one agent must be selected.") ELSE None
    [] k = "initialCash" ->
         IF initialCash <= 0 THEN Some("Initial cash must be a positive number.") ELSE None
    [] k = "startDate" ->
         IF startDate = "" THEN Some("Start date is required.") ELSE None
    [] k = "endDate" ->
         IF startDate # "" /\ endDate # "" /\ DateOrd(startDate) > DateOrd(endDate)
         THEN Some("End date cannot be before start date.")
         ELSE IF endDate = "" THEN Some("End date is required.") ELSE None

\* validateForm: newErrors
ValidateForm == [k \in {f \in Fields : FieldError(f) # None} |-> FieldError(k)[1]]

NoErrors == [k \in {} |-> ""]

\* the request body of line 138, the members the backend's run depends on
RequestBody ==
  [tickers |-> SplitTickers(tickers), selected_agents |-> selectedAgents,
   start_date |-> startDate, end_date |-> endDate, initial_cash |-> initialCash]

\* a filter that keeps the items other than agent
RECURSIVE Without(_, _)
Without(list, agent) ==
  IF list = <<>> THEN <<>>
  ELSE (IF list[1] = agent THEN <<>> ELSE <<list[1]>>) \o Without(Tail(list), agent)

\* most onChange events of the inputs after the form was first filled
MaxEdits == 1

\* the texts typed into the cash input and Number(e.target.value)
CashTexts == {"10000", "0", ""}
NumberOf(text) == CASE text = "10000" -> DEFAULT_CASH [] text = "0" -> 0 [] text = "" -> 0

\* the onChange handlers of the inputs: lines 233, 299, 313, 342
setTickers(value) ==
  /\ edits < MaxEdits
  /\ edits' = edits + 1
  /\ tickers' = value
  /\ UNCHANGED <<selectedAgents, startDate, endDate, initialCash, progressMessages,
                 finalResult, srfError, isRunning, formErrors, srf, fetchCalls, lastRequest>>
  /\ UNCHANGED <<appVars, progVars>>

setStartDate(value) ==
  /\ edits < MaxEdits
  /\ edits' = edits + 1
  /\ startDate' = value
  /\ UNCHANGED <<tickers, selectedAgents, endDate, initialCash, progressMessages,
                 finalResult, srfError, isRunning, formErrors, srf, fetchCalls, lastRequest>>
  /\ UNCHANGED <<appVars, progVars>>

setEndDate(value) ==
  /\ edits < MaxEdits
  /\ edits' = edits + 1
  /\ endDate' = value
  /\ UNCHANGED <<tickers, selectedAgents, startDate, initialCash, progressMessages,
                 finalResult, srfError, isRunning, formErrors, srf, fetchCalls, lastRequest>>
  /\ UNCHANGED <<appVars, progVars>>

setInitialCash(text) ==
  /\ edits < MaxEdits
  /\ edits' = edits + 1
  /\ initialCash' = NumberOf(text)
  /\ UNCHANGED <<tickers, selectedAgents, startDate, endDate, progressMessages,
                 finalResult, srfError, isRunning, formErrors, srf, fetchCalls, lastRequest>>
  /\ UNCHANGED <<appVars, progVars>>

handleAgentSelect(agent) ==
  /\ selectedAgents' = IF agent \in Range(selectedAgents)
                       THEN Without(selectedAgents, agent)
                       ELSE Append(selectedAgents, agent)
  /\ UNCHANGED <<tickers, startDate, endDate, initialCash, progressMessages, finalResult,
                 srfError, isRunning, formErrors, srf, fetchCalls, lastRequest>>
  /\ UNCHANGED <<appVars, progVars, edits>>

\* most requests issued by the form, while it is edited and once it is filled
MaxFormSubmits == 1
MaxSubmits == 2

IdleSubmit == [pc |-> "idle", text |-> <<>>, buffer |-> <<>>, atError |-> None, stream |-> <<>>]

\* the form is submitted: lines 126-157, up to await fetch.  The submit
\* button is disabled while isRunning (line 350).
handleSubmit(limit) ==
  /\ ~isRunning
  /\ formErrors' = ValidateForm
  /\ IF DOMAIN ValidateForm # {}
     THEN /\ isRunning' = FALSE
          /\ UNCHANGED <<progressMessages, finalResult, srfError, srf, fetchCalls, lastRequest>>
     ELSE /\ fetchCalls < limit
          /\ isRunning' = TRUE
          /\ progressMessages' = <<>>
          /\ finalResult' = None
          /\ srfError' = None
          /\ lastRequest' = Some(RequestBody)
          /\ fetchCalls' = fetchCalls + 1
          /\ srf' = [IdleSubmit EXCEPT !.pc = "fetch"]
  /\ UNCHANGED <<tickers, selectedAgents, startDate, endDate, initialCash>>
  /\ UNCHANGED <<appVars, progVars, edits>>

\* ------------------------------------- SimpleRunForm.tsx: the event stream
\* the JSON texts of the backend's events, and of their data members
K_START == "{\"event_type\":\"StartEvent\",\"data\":{\"run_id\":\"r1\"}}"
K_PROGRESS == "{\"event_type\":\"ProgressUpdateEvent\",\"data\":{\"agent\":\"technicals_agent\",\"ticker\":\"AAPL\",\"status\":\"Done\"}}"
K_COMPLETE == "{\"event_type\":\"CompleteEvent\",\"data\":{\"run_id\":\"r1\",\"decisions\":{}}}"
K_ERROR == "{\"event_type\":\"ErrorEvent\",\"data\":{\"message\":\"Backend processing error\"}}"
K_ERROR2 == "{\"event_type\":\"ErrorEvent\",\"data\":{\"message\":\"Second error\"}}"
K_OTHER == "{\"event_type\":\"PingEvent\",\"data\":{}}"

\* what JSON.parse returns for an event text: the members handleSubmit reads
EventValue(j) ==
  CASE j = K_START    -> [isNull |-> FALSE, event_type |-> Some("StartEvent"),
                          data |-> "{\"run_id\":\"r1\"}"]
    [] j = K_PROGRESS -> [isNull |-> FALSE, event_type |-> Some("ProgressUpdateEvent"),
                          data |-> "{\"agent\":\"technicals_agent\",\"ticker\":\"AAPL\",\"status\":\"Done\"}"]
    [] j = K_COMPLETE -> [isNull |-> FALSE, event_type |-> Some("CompleteEvent"),
                          data |-> "{\"run_id\":\"r1\",\"decisions\":{}}"]
    [] j = K_ERROR    -> [isNull |-> FALSE, event_type |-> Some("ErrorEvent"),
                          data |-> "{\"message\":\"Backend processing error\"}"]
    [] j = K_ERROR2   -> [isNull |-> FALSE, event_type |-> Some("ErrorEvent"),
                          data |-> "{\"message\":\"Second error\"}"]
    [] j = K_OTHER    -> [isNull |-> FALSE, event_type |-> Some("PingEvent"), data |-> "{}"]
    [] j = J_EMPTY    -> [isNull |-> FALSE, event_type |-> None, data |-> "undefined"]
    [] j = J_NULL     -> [isNull |-> TRUE, event_type |-> None, data |-> "undefined"]

EventTexts == {K_START, K_PROGRESS, K_COMPLETE, K_ERROR, K_ERROR2, K_OTHER, J_EMPTY, J_NULL}

\* JSON.parse(jsonData) returns (TRUE) or throws (FALSE)
EventParses(text) == Len(TrimWs(text)) = 1 /\ TrimWs(text)[1] \in EventTexts

\* line 202: the error recorded when the try block of line 187 throws
PARSE_FAILED == "Failed to parse event from server."

\* line 181: the separator of two messages
MSG_SEP == <<LF, LF>>

\* the state the read loop of handleSubmit works on
FormLoopState(buffer, messages, result, err, atError) ==
  [buffer |-> buffer, progressMessages |-> messages, finalResult |-> result, error |-> err,
   atError |-> atError]

\* lines 185-204: one message.  atError keeps what the form showed right after
\* the first ErrorEvent.
HandleMessage(st, message) ==
  IF ~StartsWith(message, DT) THEN st
  ELSE LET jsonData == Tail(message)
       IN IF ~EventParses(jsonData) \/ EventValue(TrimWs(jsonData)[1]).isNull
          THEN [st EXCEPT !.error = Some(PARSE_FAILED)]
          ELSE LET parsedEvent == EventValue(TrimWs(jsonData)[1])
               IN CASE parsedEvent.event_type = Some("StartEvent") ->
                         [st EXCEPT !.progressMessages =
                                      Append(@, <<"StartEvent", parsedEvent.data>>)]
                    [] parsedEvent.event_type = Some("ProgressUpdateEvent") ->
                         [st EXCEPT !.progressMessages =
                                      Append(@, <<"ProgressUpdateEvent", parsedEvent.data>>)]
                    [] parsedEvent.event_type = Some("CompleteEvent") ->
                         [st EXCEPT !.finalResult = Some(parsedEvent.data)]
                    [] parsedEvent.event_type = Some("ErrorEvent") ->
                         [st EXCEPT !.error = Some(parsedEvent.data),
                                    !.atError = IF st.atError = None
                                                THEN Some([error |-> Some(parsedEvent.data),
                                                           finalResult |-> st.finalResult])
                                                ELSE st.atError]
                    [] OTHER -> st

\* lines 181-205: take the messages out of the buffer
RECURSIVE DrainBuffer(_)
DrainBuffer(st) ==
  LET EOL_index == IndexOfSeq(st.buffer, MSG_SEP)
  IN IF EOL_index = 0 THEN st
     ELSE DrainBuffer(HandleMessage([st EXCEPT !.buffer = Drop(st.buffer, EOL_index + 2)],
                                    SubSeq(st.buffer, 1, EOL_index - 1)))

\* the backend's stream: one "data: <json>" message per event
RECURSIVE EncodeEvents(_)
EncodeEvents(payloads) ==
  IF payloads = <<>> THEN <<>>
  ELSE <<DT, payloads[1], LF, LF>> \o EncodeEvents(Tail(payloads))

EventLists ==
  {<<K_START, K_PROGRESS, K_COMPLETE>>, <<K_START, K_ERROR, K_COMPLETE>>, <<K_ERROR, K_ERROR2>>,
   <<NOTJSON, K_COMPLETE>>, <<K_OTHER, J_NULL>>}

\* the event lists whose only defect is a payload that is not JSON
MalformedOnlyLists ==
  {p \in EventLists : /\ \E n \in 1..Len(p) : p[n] = NOTJSON
                      /\ \A n \in 1..Len(p) : p[n] \in {NOTJSON, K_START, K_PROGRESS, K_COMPLETE}}

\* the streams a submit is answered with; the last one is in the event:/data: format
EventStreams ==
  {EncodeEvents(p) : p \in EventLists} \cup {Encode(<<Frame("complete", K_COMPLETE)>>, SEP_LF)}

OneEventStreams == {EncodeEvents(<<K_COMPLETE>>)}

\* fetch rejects, or the response is not ok or has no body: lines 159-166, 207-212
\* the ways the request of the form fails: fetch rejects; the response is not
\* ok and its body is JSON with a detail, JSON without one, or no JSON; the
\* response is ok and has no body
FormFetchFailures ==
  {[kind |-> "reject", message |-> "Failed to fetch", status |-> 0, detail |-> None],
   [kind |-> "json", message |-> "", status |-> 500, detail |-> Some("boom")],
   [kind |-> "json", message |-> "", status |-> 500, detail |-> None],
   [kind |-> "text", message |-> "Unexpected token 'b', \"boom\" is not valid JSON",
    status |-> 500, detail |-> None],
   [kind |-> "nobody", message |-> "", status |-> 200, detail |-> None]}

\* the message of the error that reaches the catch of line 207: lines 157-166
FormFetchMessage(outcome) ==
  CASE outcome.kind = "reject" -> outcome.message
    [] outcome.kind = "text" -> outcome.message
    [] outcome.kind = "json" ->
         IF outcome.detail # None /\ outcome.detail[1] # "" THEN outcome.detail[1]
         ELSE "HTTP error! status: " \o ToString(outcome.status)
    [] outcome.kind = "nobody" -> "Response body is null"

\* fetch rejects, or the response is not ok or has no body: the catch and the finally
FormFetchFail(outcome) ==
  /\ srf.pc = "fetch"
  /\ srfError' = Some(FormFetchMessage(outcome))
  /\ isRunning' = FALSE
  /\ srf' = [srf EXCEPT !.pc = "done"]
  /\ UNCHANGED <<tickers, selectedAgents, startDate, endDate, initialCash, progressMessages,
                 finalResult, formErrors, fetchCalls, lastRequest>>
  /\ UNCHANGED <<appVars, progVars, edits>>

\* fetch resolves with a streamed body: lines 168-170
FormFetchOk(text) ==
  /\ srf.pc = "fetch"
  /\ srf' = [srf EXCEPT !.pc = "read", !.text = text, !.stream = text]
  /\ UNCHANGED <<tickers, selectedAgents, startDate, endDate, initialCash, progressMessages,
                 finalResult, srfError, isRunning, formErrors, fetchCalls, lastRequest>>
  /\ UNCHANGED <<appVars, progVars, edits>>

\* reader.read() resolves with the next k tokens: lines 173-205
FormReadChunk(k) ==
  /\ srf.pc = "read"
  /\ k \in 1..Len(srf.text)
  /\ LET st == DrainBuffer(FormLoopState(srf.buffer \o SubSeq(srf.text, 1, k), progressMessages,
                                         finalResult, srfError, srf.atError))
     IN /\ progressMessages' = st.progressMessages
        /\ finalResult' = st.finalResult
        /\ srfError' = st.error
        /\ srf' = [srf EXCEPT !.text = Drop(srf.text, k + 1), !.buffer = st.buffer,
                              !.atError = st.atError]
  /\ UNCHANGED <<tickers, selectedAgents, startDate, endDate, initialCash, isRunning,
                 formErrors, fetchCalls, lastRequest>>
  /\ UNCHANGED <<appVars, progVars, edits>>

\* reader.read() rejects: the catch of line 207 and the finally
FormReadFail(message) ==
  /\ srf.pc = "read"
  /\ srfError' = Some(message)
  /\ isRunning' = FALSE
  /\ srf' = [srf EXCEPT !.pc = "failed"]
  /\ UNCHANGED <<tickers, selectedAgents, startDate, endDate, initialCash, progressMessages,
                 finalResult, formErrors, fetchCalls, lastRequest>>
  /\ UNCHANGED <<appVars, progVars, edits>>

\* reader.read() resolves with done: line 174 breaks, the finally
FormReadDone ==
  /\ srf.pc = "read"
  /\ srf.text = <<>>
  /\ isRunning' = FALSE
  /\ srf' = [srf EXCEPT !.pc = "done"]
  /\ UNCHANGED <<tickers, selectedAgents, startDate, endDate, initialCash, progressMessages,
                 finalResult, srfError, formErrors, fetchCalls, lastRequest>>
  /\ UNCHANGED <<appVars, progVars, edits>>

\* the form as it is first rendered
InitFormBlank ==
  /\ tickers = <<>>
  /\ selectedAgents = <<>>
  /\ startDate = ""
  /\ endDate = ""
  /\ initialCash = DEFAULT_CASH
  /\ progressMessages = <<>>
  /\ finalResult = None
  /\ srfError = None
  /\ isRunning = FALSE
  /\ formErrors = NoErrors
  /\ srf = IdleSubmit
  /\ fetchCalls = 0
  /\ lastRequest = None
  /\ edits = 0

\* the form filled in with one ticker, one agent and a day
InitFormFilled ==
  /\ tickers = <<"A">>
  /\ selectedAgents = <<"Technicals">>
  /\ startDate = D1
  /\ endDate = D1
  /\ initialCash = DEFAULT_CASH
  /\ progressMessages = <<>>
  /\ finalResult = None
  /\ srfError = None
  /\ isRunning = FALSE
  /\ formErrors = NoErrors
  /\ srf = IdleSubmit
  /\ fetchCalls = 0
  /\ lastRequest = None
  /\ edits = 0

\* --------------------- AnalysisProgressMatrix.tsx and AnalysisResults.tsx
\* the props of the matrix: the tickers and the agents of the request
PropTickers == <<"AAPL", "MSFT", "GOOG">>
PropAgents == <<"warren_buffett", "risk_manager">>

\* Array.prototype.indexOf, 0-based, -1 when absent; ticker is an optional
JsIndexOf(tks, ticker) == IF ticker = None THEN -1 ELSE IndexOf(tks, ticker[1]) - 1

\* getCellStatus of the matrix, lines 41-57
getCellStatus(data, tks, agentKey, ticker) ==
  IF agentKey \notin DOMAIN data THEN "IDLE"
  ELSE LET agentData == data[agentKey]
       IN IF agentData.status = "COMPLETE" THEN "COMPLETE"
          ELSE IF agentData.status = "ERROR" THEN "ERROR"
          ELSE IF agentData.status = "IN_PROGRESS"
               THEN IF agentData.ticker = Some(ticker) THEN "IN_PROGRESS"
                    ELSE LET tickerIndex == JsIndexOf(tks, Some(ticker))
                             currentTickerIndex == JsIndexOf(tks, agentData.ticker)
                         IN IF tickerIndex < currentTickerIndex THEN "COMPLETE" ELSE "IDLE"
               ELSE "IDLE"

\* ------------------------------------------- Number arithmetic of line 39
\* A double is NaN, Infinity, or the finite value (integer of bits) * 2^exp;
\* bits are binary digits, most significant first: none for 0, otherwise 53
\* with a leading 1.  The operands are integers below 2^15.
Double(bits, exp) == [kind |-> "finite", bits |-> bits, exp |-> exp]
DoubleNaN == [kind |-> "NaN", bits |-> <<>>, exp |-> 0]
DoubleInfinity == [kind |-> "Infinity", bits |-> <<>>, exp |-> 0]

\* n written in w binary digits
FixedBits(n, w) == [j \in 1..w |-> (n \div 2^(w - j)) % 2]

\* the digits without their leading zeros
StripZeros(bits) ==
  IF \A i \in 1..Len(bits) : bits[i] = 0 THEN <<>>
  ELSE SubSeq(bits, CHOOSE i \in 1..Len(bits) : bits[i] = 1 /\ \A j \in 1..(i - 1) : bits[j] = 0,
              Len(bits))

\* the binary digits of a non-negative integer
BitsOf(n) == StripZeros(FixedBits(n, 31))

\* the integer a short sequence of binary digits stands for
RECURSIVE ValueOf(_)
ValueOf(bits) ==
  IF bits = <<>> THEN 0 ELSE 2 * ValueOf(SubSeq(bits, 1, Len(bits) - 1)) + bits[Len(bits)]

\* the digits of (integer of bits) + 1
Increment(bits) ==
  IF \A i \in 1..Len(bits) : bits[i] = 1 THEN <<1>> \o [i \in 1..Len(bits) |-> 0]
  ELSE LET p == CHOOSE i \in 1..Len(bits) : bits[i] = 0 /\ \A j \in (i + 1)..Len(bits) : bits[j] = 1
       IN [i \in 1..Len(bits) |-> IF i < p THEN bits[i] ELSE IF i = p THEN 1 ELSE 0]

\* (integer of bits) * 2^exp, plus a nonzero rest below the last digit when
\* sticky, rounded to 53 significant digits: to nearest, ties to even
RoundToDouble(bits, exp, sticky) ==
  IF Len(bits) <= 53
  THEN Double(bits \o [i \in 1..(53 - Len(bits)) |-> 0], exp - (53 - Len(bits)))
  ELSE LET kept == SubSeq(bits, 1, 53)
           rest == SubSeq(bits, 54, Len(bits))
           more == sticky \/ \E i \in 2..Len(rest) : rest[i] = 1
           up == rest[1] = 1 /\ (more \/ kept[53] = 1)
           inc == Increment(kept)
       IN IF ~up THEN Double(kept, exp + Len(rest))
          ELSE IF Len(inc) > 53 THEN Double(SubSeq(inc, 1, 53), exp + Len(rest) + 1)
          ELSE Double(inc, exp + Len(rest))

\* the least k with a * 2^k >= b
RECURSIVE ShiftFor(_, _)
ShiftFor(a, b) == IF a >= b THEN 0 ELSE 1 + ShiftFor(2 * a, b)

\* 2^e modulo b
RECURSIVE Pow2Mod(_, _)
Pow2Mod(e, b) ==
  IF e = 0 THEN 1 % b
  ELSE LET h == Pow2Mod(e \div 2, b)
       IN (((h * h) % b) * (IF e % 2 = 1 THEN 2 ELSE 1)) % b

\* the i-th binary digit after the point of r / b, for r < b
FractionBit(r, b, i) == (2 * ((r * Pow2Mod(i - 1, b)) % b)) \div b

\* a / b for non-negative integers, as a double: 55 digits of the quotient
\* after its leading digits, rounded
DoubleDivide(a, b) ==
  IF b = 0 THEN (IF a = 0 THEN DoubleNaN ELSE DoubleInfinity)
  ELSE IF a = 0 THEN Double(<<>>, 0)
  ELSE LET k == ShiftFor(a, b)
           scaled == a * 2^k
           r == scaled % b
       IN RoundToDouble(BitsOf(scaled \div b) \o [i \in 1..55 |-> FractionBit(r, b, i)],
                        0 - 55 - k, (r * Pow2Mod(55, b)) % b # 0)

\* the digits in groups of ten, each group as an integer
Limbs(bits) ==
  LET padded == [i \in 1..((10 - (Len(bits) % 10)) % 10) |-> 0] \o bits
  IN [m \in 1..(Len(padded) \div 10) |-> ValueOf(SubSeq(padded, 10 * (m - 1) + 1, 10 * m))]

\* the groups of (integer of limbs) * n + carry, after the last carry
RECURSIVE TimesLimbs(_, _, _)
TimesLimbs(limbs, n, carry) ==
  IF limbs = <<>> THEN <<carry>>
  ELSE LET s == limbs[Len(limbs)] * n + carry
       IN Append(TimesLimbs(SubSeq(limbs, 1, Len(limbs) - 1), n, s \div 1024), s % 1024)

\* the digits of (integer of bits) * n
TimesBits(bits, n) ==
  LET p == TimesLimbs(Limbs(bits), n, 0)
  IN StripZeros(FixedBits(p[1], 31) \o
                [i \in 1..(10 * (Len(p) - 1)) |-> FixedBits(p[((i - 1) \div 10) + 2], 10)[((i - 1) % 10) + 1]])

\* x * n for a double x and a positive integer n, as a double
DoubleTimes(x, n) ==
  IF x.kind # "finite" \/ x.bits = <<>> THEN x
  ELSE RoundToDouble(TimesBits(x.bits, n), x.exp, FALSE)

\* a number whose value is an integer, NaN or Infinity
Num(n) == [kind |-> "finite", value |-> n]
NaN == [kind |-> "NaN", value |-> 0]
Infinity == [kind |-> "Infinity", value |-> 0]

\* Math.round for a non-negative double below 2^31: the nearest integer, a
\* half goes up
MathRound(x) ==
  IF x.kind = "NaN" THEN NaN
  ELSE IF x.kind = "Infinity" THEN Infinity
  ELSE IF x.bits = <<>> \/ 0 - x.exp > 53 THEN Num(0)
  ELSE LET whole == 53 + x.exp
       IN Num(ValueOf(SubSeq(x.bits, 1, whole)) + x.bits[whole + 1])

\* Math.min(a, x) for an integer a
MathMin(a, x) ==
  IF x.kind = "NaN" THEN NaN
  ELSE IF x.kind = "Infinity" THEN Num(a)
  ELSE IF a <= x.value THEN Num(a) ELSE x

\* a number as the page writes it: the integer, "NaN" or "Infinity"
NumberText(x) == IF x.kind = "finite" THEN x.value ELSE x.kind

\* Math.round((completedTasks / totalTasks) * 100)
Percent(completedTasks, totalTasks) ==
  MathRound(DoubleTimes(DoubleDivide(completedTasks, totalTasks), 100))
RoundPercent(completedTasks, totalTasks) == NumberText(Percent(completedTasks, totalTasks))

\* a variant of the count that leaves out the agent's current ticker
RECURSIVE CompletedTasksBefore(_, _, _, _)
CompletedTasksBefore(data, agentKeys, tks, n) ==
  IF n = 0 THEN 0
  ELSE CompletedTasksBefore(data, agentKeys, tks, n - 1) +
       (IF agentKeys[n] \notin DOMAIN data THEN 0
        ELSE IF data[agentKeys[n]].status = "COMPLETE" THEN Len(tks)
        ELSE IF data[agentKeys[n]].status = "IN_PROGRESS" /\ data[agentKeys[n]].ticker # None
             THEN JsIndexOf(tks, data[agentKeys[n]].ticker)
        ELSE 0)

\* the tasks getAnalysisProgress counts for the first n agents
RECURSIVE CompletedTasks(_, _, _, _)
CompletedTasks(data, agentKeys, tks, n) ==
  IF n = 0 THEN 0
  ELSE CompletedTasks(data, agentKeys, tks, n - 1) +
       (IF agentKeys[n] \notin DOMAIN data THEN 0
        ELSE IF data[agentKeys[n]].status = "COMPLETE" THEN Len(tks)
        ELSE IF data[agentKeys[n]].status = "IN_PROGRESS" /\ data[agentKeys[n]].ticker # None
             THEN JsIndexOf(tks, data[agentKeys[n]].ticker) + 1
        ELSE 0)

\* getAnalysisProgress of AnalysisResults.tsx, lines 22-40
getAnalysisProgress(data, agentKeys, tks) ==
  IF Len(agentKeys) = 0 THEN 0
  ELSE NumberText(MathMin(100, Percent(CompletedTasks(data, agentKeys, tks, Len(agentKeys)),
                                       Len(agentKeys) * Len(tks))))

\* the node record the context keeps for an agent
NodeRecord(status, ticker) == [status |-> status, ticker |-> ticker]

\* the context's update for a progress event: a COMPLETE or ERROR record takes
\* no further event, any other record is replaced by the event's status and ticker
ApplyProgress(data, agent, ticker, status) ==
  LET prev == IF agent \in DOMAIN data THEN data[agent].status ELSE "IDLE"
  IN IF prev \in {"COMPLETE", "ERROR"} THEN data
     ELSE (agent :> NodeRecord(status, ticker)) @@ data

EventStatuses == {"IN_PROGRESS", "COMPLETE", "ERROR"}
EventTickers == {Some(PropTickers[n]) : n \in 1..Len(PropTickers)} \cup {None}

\* a progress event of the run arrives
ProgressEvent(agent, ticker, status) ==
  /\ agentNodeData' = ApplyProgress(agentNodeData, agent, ticker, status)
  /\ UNCHANGED <<appVars, formVars, prominent, resultsTable, watchVars>>

\* the context after resetAllNodes
NoNodes == [a \in {} |-> NodeRecord("IDLE", None)]
InitProgress == agentNodeData = NoNodes

\* ----------------------------------------------------- App.tsx as a whole
\* the component after mount: fetchInitialData is awaiting the keys
InitMountApp ==
  /\ allAnalysisData = NullData
  /\ twinData = NullData
  /\ isLoading = TRUE
  /\ error = None
  /\ isLoadingAnalysis = FALSE
  /\ analysisError = None
  /\ load = [pc |-> "keys", keys |-> <<>>, fetchedData |-> NoStyles]
  /\ runs = <<>>
  /\ runCalls = 0
  /\ cancelRequested = FALSE

\* the states fetchInitialData ends in: the keys request failed, or the one
\* cached style was loaded (the state App.test.tsx waits for before it runs)
LoadFailedData == NullData
LoadedData ==
  [isNull |-> FALSE,
   styles |-> (CACHE_KEY :> [styleName |-> StyleNameFromKey(CACHE_KEY), data |-> <<CachedItem>>])]

InitLoadedApp ==
  /\ \E failed \in BOOLEAN :
       /\ allAnalysisData = (IF failed THEN LoadFailedData ELSE LoadedData)
       /\ twinData = allAnalysisData
       /\ error = (IF failed THEN Some("Failed to load data.") ELSE None)
  /\ isLoading = FALSE
  /\ isLoadingAnalysis = FALSE
  /\ analysisError = None
  /\ load = [pc |-> "done", keys |-> <<>>, fetchedData |-> NoStyles]
  /\ runs = <<>>
  /\ runCalls = 0
  /\ cancelRequested = FALSE

\* no watchlist row rendered yet
InitView ==
  /\ prominent = None
  /\ resultsTable = None
  /\ watchlist = InitialWatchlist
  /\ monitorTickerInput = <<>>
  /\ lastAdd = None

InitMount == InitMountApp /\ InitFormBlank /\ InitProgress /\ InitView
InitLoaded == InitLoadedApp /\ InitFormBlank /\ InitProgress /\ InitView

\* one run of runWatchlistAnalysisHandler over every stream, cut anywhere
Init == InitLoaded

Next ==
  \/ RunStart(MaxRuns)
  \/ \E message \in SetupErrors : RunStartThrows(MaxRuns, message)
  \/ RunRejected(MaxRuns)
  \/ \E i \in 1..Len(runs) : \E outcome \in FetchFailures : FetchFail(i, outcome)
  \/ \E i \in 1..Len(runs) : \E stream \in Streams : FetchOk(i, stream)
  \/ \E i \in 1..Len(runs) : \E k \in 1..Len(runs[i].text) : ReadChunk(i, k)
  \/ \E i \in 1..Len(runs) : ReadDone(i)
  \/ \E i \in 1..Len(runs) : \E message \in ReadRejections : ReadFail(i, message)
  \/ CancelRun

Spec == Init /\ [][Next]_vars

\* several runs one after the other, over short streams
ShortFrameLists ==
  {<<Frame("complete", J_A1)>>, <<Frame("complete", J_MA), Frame("complete", J_A2)>>,
   <<Frame("error", J_ERR)>>}
ShortStreams == {Stream(fl, SEP_ESC) : fl \in ShortFrameLists}

NextRuns ==
  \/ RunStart(MaxSeqRuns)
  \/ \E message \in SetupErrors : RunStartThrows(MaxSeqRuns, message)
  \/ RunRejected(MaxSeqRuns)
  \/ \E i \in 1..Len(runs) : \E outcome \in FetchFailures : FetchFail(i, outcome)
  \/ \E i \in 1..Len(runs) : \E stream \in ShortStreams : FetchOk(i, stream)
  \/ \E i \in 1..Len(runs) : \E k \in 1..Len(runs[i].text) : ReadChunk(i, k)
  \/ \E i \in 1..Len(runs) : ReadDone(i)

\* the streams of the runs that are followed to their end
LiveStreams == ShortStreams \cup {Stream(FramesErrorMid, SEP_ESC), Stream(FramesStartComplete, SEP_LF)}

\* the promise the handler awaits settles and the handler goes on: fetch
\* resolves or rejects (line 204), reader.read() resolves or rejects (line 217)
RunSettles ==
  \E i \in 1..Len(runs) :
    \/ \E outcome \in FetchFailures : FetchFail(i, outcome)
    \/ \E stream \in LiveStreams : FetchOk(i, stream)
    \/ \E k \in 1..Len(runs[i].text) : ReadChunk(i, k)
    \/ ReadDone(i)
    \/ \E message \in ReadRejections : ReadFail(i, message)

NextLive ==
  \/ RunStart(MaxRuns)
  \/ \E message \in SetupErrors : RunStartThrows(MaxRuns, message)
  \/ RunRejected(MaxRuns)
  \/ \E i \in 1..Len(runs) : \E outcome \in FetchFailures : FetchFail(i, outcome)
  \/ \E i \in 1..Len(runs) : \E stream \in LiveStreams : FetchOk(i, stream)
  \/ \E i \in 1..Len(runs) : \E k \in 1..Len(runs[i].text) : ReadChunk(i, k)
  \/ \E i \in 1..Len(runs) : ReadDone(i)
  \/ \E i \in 1..Len(runs) : \E message \in ReadRejections : ReadFail(i, message)

\* one App run in which every awaited promise settles
SpecLive == Init /\ [][NextLive]_vars /\ WF_vars(RunSettles)

SpecRuns == InitLoaded /\ [][NextRuns]_vars

\* runs over the stream that holds a frame of an unrecognized type, in the
\* wire format and with the escaped separator
UnknownStreams == {Stream(FramesUnknown, sep) : sep \in {SEP_LF, SEP_ESC}}

NextUnknown ==
  \/ RunStart(MaxRuns)
  \/ \E message \in SetupErrors : RunStartThrows(MaxRuns, message)
  \/ RunRejected(MaxRuns)
  \/ \E i \in 1..Len(runs) : \E outcome \in FetchFailures : FetchFail(i, outcome)
  \/ \E i \in 1..Len(runs) : \E stream \in UnknownStreams : FetchOk(i, stream)
  \/ \E i \in 1..Len(runs) : \E k \in 1..Len(runs[i].text) : ReadChunk(i, k)
  \/ \E i \in 1..Len(runs) : ReadDone(i)

SpecUnknown == InitLoaded /\ [][NextUnknown]_vars

\* the initial load and the runs together
NextLoad ==
  \/ \E keys \in {<<>>, <<CACHE_KEY>>} : LoadKeysOk(keys)
  \/ \E message \in LoadRejections : LoadKeysFail(message)
  \/ \E ok \in BOOLEAN : LoadResult(ok)
  \/ NextRuns

SpecLoad == InitMount /\ [][NextLoad]_vars

\* ------------------------------------------------ SimpleRunForm.tsx as a whole
\* the messages of the errors reader.read() rejects with
FetchErrors == {"Failed to fetch"}

\* the form with any values typed into its inputs and no agent picked yet
InitFormTyped ==
  /\ tickers \in TickerInputs
  /\ selectedAgents = <<>>
  /\ startDate \in StartDateInputs
  /\ endDate \in EndDateInputs
  /\ initialCash \in CashInputs
  /\ progressMessages = <<>>
  /\ finalResult = None
  /\ srfError = None
  /\ isRunning = FALSE
  /\ formErrors = NoErrors
  /\ srf = IdleSubmit
  /\ fetchCalls = 0
  /\ lastRequest = None
  /\ edits = 0

\* values are typed, agents are picked and the form is submitted; a submit is
\* answered with a one-event stream
NextForm ==
  \/ \E value \in TickerInputs : setTickers(value)
  \/ \E value \in StartDateInputs : setStartDate(value)
  \/ \E value \in EndDateInputs : setEndDate(value)
  \/ \E text \in CashTexts : setInitialCash(text)
  \/ \E agent \in AgentChoices : handleAgentSelect(agent)
  \/ handleSubmit(MaxFormSubmits)
  \/ \E outcome \in FormFetchFailures : FormFetchFail(outcome)
  \/ \E text \in OneEventStreams : FormFetchOk(text)
  \/ \E k \in 1..Len(srf.text) : FormReadChunk(k)
  \/ \E message \in FetchErrors : FormReadFail(message)
  \/ FormReadDone

InitForm == InitMountApp /\ InitFormTyped /\ InitProgress /\ InitView

SpecForm == InitForm /\ [][NextForm]_vars

\* the filled form is submitted; a submit is answered with any event stream
NextFormRun ==
  \/ handleSubmit(MaxSubmits)
  \/ \E outcome \in FormFetchFailures : FormFetchFail(outcome)
  \/ \E text \in EventStreams : FormFetchOk(text)
  \/ \E k \in 1..Len(srf.text) : FormReadChunk(k)
  \/ \E message \in FetchErrors : FormReadFail(message)
  \/ FormReadDone

InitFormRun == InitMountApp /\ InitFormFilled /\ InitProgress /\ InitView

SpecFormRun == InitFormRun /\ [][NextFormRun]_vars

\* ------------------------------------------------- the progress matrix as a whole
NextProgress ==
  \E n \in 1..Len(PropAgents) : \E ticker \in EventTickers : \E status \in EventStatuses :
    ProgressEvent(PropAgents[n], ticker, status)

SpecProgress == InitMount /\ [][NextProgress]_vars

\* ------------------------------------------- MonitorView: prominent signal
\* a value is truthy: a string that is not null or empty, a number that is
\* not null or 0
TruthyString(x) == x # None /\ x[1] # ""
TruthyNumber(x) == x # None /\ x[1] # 0

\* Object.values(allAnalysisData): the cached styles in the order they were
\* fetched, the on-demand style last
StyleOrder == <<CACHE_KEY, ON_DEMAND_STYLE_KEY>>

RECURSIVE StyleValuesFrom(_, _)
StyleValuesFrom(styles, n) ==
  IF n > Len(StyleOrder) THEN <<>>
  ELSE (IF StyleOrder[n] \in DOMAIN styles THEN <<styles[StyleOrder[n]]>> ELSE <<>>)
       \o StyleValuesFrom(styles, n + 1)

StyleValues(data) == StyleValuesFrom(data.styles, 1)

\* what the scan has found so far
Best(bestSignal, highestConfidence) ==
  [bestSignal |-> bestSignal, highestConfidence |-> highestConfidence]

\* item.agent_signals.forEach(...), from position n on: lines 36-41
RECURSIVE ScanAgentSignals(_, _, _)
ScanAgentSignals(agent_signals, n, best) ==
  IF n > Len(agent_signals) THEN best
  ELSE LET agentSignal == agent_signals[n]
       IN ScanAgentSignals(agent_signals, n + 1,
            IF TruthyNumber(agentSignal.confidence)
               /\ agentSignal.confidence[1] > best.highestConfidence
            THEN Best(agentSignal.signal, agentSignal.confidence[1])
            ELSE best)

\* one item of a style: lines 28-43
ScanItem(item, ticker, best) ==
  IF item.ticker # ticker THEN best
  ELSE ScanAgentSignals(item.agent_signals, 1,
         IF TruthyString(item.signal) /\ TruthyNumber(item.confidence)
            /\ item.confidence[1] > best.highestConfidence
         THEN Best(item.signal, item.confidence[1])
         ELSE best)

\* styleEntry.data.forEach(...), from position n on
RECURSIVE ScanItems(_, _, _, _)
ScanItems(items, n, ticker, best) ==
  IF n > Len(items) THEN best
  ELSE ScanItems(items, n + 1, ticker, ScanItem(items[n], ticker, best))

\* Object.values(allAnalysisData).forEach(...), from position n on
RECURSIVE ScanStyles(_, _, _, _)
ScanStyles(entries, n, ticker, best) ==
  IF n > Len(entries) THEN best
  ELSE ScanStyles(entries, n + 1, ticker, ScanItems(entries[n].data, 1, ticker, best))

\* getProminentSignalForTicker, lines 16-48
getProminentSignalForTicker(ticker, data) ==
  IF data.isNull THEN [signal |-> None, confidence |-> None]
  ELSE LET best == ScanStyles(StyleValues(data), 1, ticker, Best(None, -1))
       IN [signal |-> best.bestSignal,
           confidence |-> IF best.highestConfidence = -1 THEN None
                          ELSE Some(best.highestConfidence)]

\* a watchlist row is rendered for a ticker: while an analysis is loading the
\* row shows "Loading..." and the dataset is not read
RenderRow(ticker) ==
  /\ prominent' = Some([ticker |-> ticker,
                        shown |-> IF isLoadingAnalysis
                                  THEN [signal |-> Some("Loading..."), confidence |-> None]
                                  ELSE getProminentSignalForTicker(ticker, allAnalysisData)])
  /\ UNCHANGED <<appVars, formVars, agentNodeData, resultsTable, watchVars>>

\* the datasets the rows are rendered from
MaxSignals == 2
Confidences == {None, Some(0), Some(50), Some(80)}
AgentSignalInputs ==
  {[agent_name |-> "technicals_agent", signal |-> Some(sg), confidence |-> c, reasoning |-> None] :
     sg \in {"bullish", "bearish"}, c \in Confidences}
AgentSignalLists == UNION {[1..n -> AgentSignalInputs] : n \in 0..MaxSignals}
ItemHeads ==
  {<<None, None>>, <<Some("Buy"), Some(50)>>, <<Some("Buy"), Some(0)>>, <<Some("Hold"), None>>,
   <<None, Some(80)>>}
CachedItems ==
  {[ticker |-> "AAPL", agent_signals |-> l, signal |-> h[1], confidence |-> h[2]] :
     l \in AgentSignalLists, h \in ItemHeads}
\* the dataset after the load of the one cached style
CachedDataset(c) ==
  [isNull |-> FALSE,
   styles |-> (CACHE_KEY :> [styleName |-> StyleNameFromKey(CACHE_KEY), data |-> <<c>>])]

\* the payloads of the complete frames an on-demand run answers with
MergedPayloads == {J_A1, J_A2, J_MA}

\* the stream of one complete frame
OneCompleteStream(j) == Stream(<<Frame("complete", j)>>, SEP_ESC)

\* the loop state after the run read that stream in one chunk, from the dataset data
AfterOneComplete(data, j) ==
  ProcessChunk(LoopState(<<>>, data, None, FALSE, <<>>, <<>>), OneCompleteStream(j).text)

\* the record of the run after it read the stream to its end
SettledRun(j) ==
  LET st == AfterOneComplete(NullData, j)
  IN [NewRun EXCEPT !.pc = "done",
                    !.frames = OneCompleteStream(j).frames, !.sep = OneCompleteStream(j).sep,
                    !.buffer = st.buffer, !.delivered = st.delivered,
                    !.parseErrors = st.parseErrors, !.twinBuffer = st.buffer]

\* the App a watchlist row is rendered in, after these histories:
\*   the load has ended with one cached style, and no run has been called;
\*   then one run has merged a complete frame and ended;
\*   the load still awaits the keys;
\*   the keys request has failed;
\* in each, a further call of the handler may be awaiting its response
InitMonitorApp ==
  /\ isLoadingAnalysis \in BOOLEAN
  /\ analysisError = None
  /\ cancelRequested = FALSE
  /\ \/ /\ \E c \in CachedItems : allAnalysisData = CachedDataset(c)
        /\ isLoading = FALSE
        /\ error = None
        /\ load = [pc |-> "done", keys |-> <<>>, fetchedData |-> NoStyles]
        /\ runs = (IF isLoadingAnalysis THEN <<NewRun>> ELSE <<>>)
     \/ /\ \E c \in CachedItems : \E j \in MergedPayloads :
             /\ allAnalysisData = AfterOneComplete(CachedDataset(c), j).data
             /\ runs = <<SettledRun(j)>> \o (IF isLoadingAnalysis THEN <<NewRun>> ELSE <<>>)
        /\ isLoading = FALSE
        /\ error = None
        /\ load = [pc |-> "done", keys |-> <<>>, fetchedData |-> NoStyles]
     \/ /\ allAnalysisData = NullData
        /\ isLoading = TRUE
        /\ error = None
        /\ load = [pc |-> "keys", keys |-> <<>>, fetchedData |-> NoStyles]
        /\ runs = (IF isLoadingAnalysis THEN <<NewRun>> ELSE <<>>)
     \/ /\ allAnalysisData = NullData
        /\ isLoading = FALSE
        /\ \E message \in LoadRejections :
             error = Some(IF message # "" THEN message ELSE "Failed to load data.")
        /\ load = [pc |-> "done", keys |-> <<>>, fetchedData |-> NoStyles]
        /\ runs = (IF isLoadingAnalysis THEN <<NewRun>> ELSE <<>>)
  /\ twinData = allAnalysisData
  /\ runCalls = Len(runs)

InitMonitor == InitMonitorApp /\ InitFormBlank /\ InitProgress /\ InitView

NextMonitor == \E ticker \in {"AAPL", "MSFT"} : RenderRow(ticker)

SpecMonitor == InitMonitor /\ [][NextMonitor]_vars

\* ---------------------------------- AnalysisResultsTable.tsx: the results table
\* the keys of the agent registry, in its order
agents ==
  <<"aswath_damodaran", "ben_graham", "bill_ackman", "cathie_wood", "charlie_munger",
    "michael_burry", "peter_lynch", "phil_fisher", "rakesh_jhunjhunwala",
    "stanley_druckenmiller", "warren_buffett", "technical_analyst", "fundamentals_analyst",
    "sentiment_analyst", "valuation_analyst", "risk_manager", "portfolio_manager">>

\* agents.find(agent => agent.key === agentKey) || null
getAgentInfo(agentKey) ==
  IF \E n \in 1..Len(agents) : agents[n] = agentKey THEN Some(agentKey) ELSE None

\* agentKey + '_agent'
fullAgentKey(agentKey) == agentKey \o "_agent"

\* a result with a signal, and the result of the risk agent, which has none
SignalResult ==
  [signal |-> Some("bullish"), confidence |-> Some(80),
   remaining_position_limit |-> None, current_price |-> None]
RiskResult ==
  [signal |-> None, confidence |-> None,
   remaining_position_limit |-> Some(5000), current_price |-> Some(150)]

\* agentSignals[key]?.[ticker]: undefined when the key or the ticker is absent
AgentResults(agentSignals, key, ticker) ==
  IF key \in DOMAIN agentSignals /\ ticker \in DOMAIN agentSignals[key]
  THEN Some(agentSignals[key][ticker]) ELSE None

\* the cell of the summary table for an agent and a ticker
SummaryCell(agentSignals, agentKey, ticker) ==
  LET agentResults == AgentResults(agentSignals, fullAgentKey(agentKey), ticker)
  IN IF agentResults # None /\ TruthyString(agentResults[1].signal)
     THEN [kind |-> "signal", signal |-> agentResults[1].signal,
           confidence |-> agentResults[1].confidence]
     ELSE IF /\ agentKey = "risk_management"
             /\ agentResults # None
             /\ agentResults[1].remaining_position_limit # None
     THEN [kind |-> "position", signal |-> None,
           confidence |-> agentResults[1].remaining_position_limit]
     ELSE [kind |-> "dash", signal |-> None, confidence |-> None]

\* whether the detailed view renders a card for the ticker
hasResults(agentSignals, agentKeys, ticker) ==
  \E n \in 1..Len(agentKeys) :
    \/ /\ AgentResults(agentSignals, fullAgentKey(agentKeys[n]), ticker) # None
       /\ TruthyString(AgentResults(agentSignals, fullAgentKey(agentKeys[n]), ticker)[1].signal)
    \/ /\ agentKeys[n] = "risk_management"
       /\ AgentResults(agentSignals, "risk_management_agent", ticker) # None
       /\ AgentResults(agentSignals, "risk_management_agent", ticker)[1].remaining_position_limit # None

\* the block of an agent inside the card of a ticker: "none", "position" or "signal"
DetailBlock(agentSignals, agentKey, ticker) ==
  LET agentResults == AgentResults(agentSignals, fullAgentKey(agentKey), ticker)
  IN IF getAgentInfo(agentKey) = None THEN "none"
     ELSE IF agentKey = "risk_management" /\ agentResults # None THEN "position"
     ELSE IF agentResults = None \/ ~TruthyString(agentResults[1].signal) THEN "none"
     ELSE "signal"

\* the table is rendered with its props
RenderTable(agentKeys, tickerList, agentSignals) ==
  /\ resultsTable' =
       Some([selectedAgents |-> agentKeys,
             tickers |-> tickerList,
             analyst_signals |-> agentSignals,
             summary |-> [n \in 1..Len(agentKeys) |-> [m \in 1..Len(tickerList) |->
                            SummaryCell(agentSignals, agentKeys[n], tickerList[m])]],
             cards |-> [m \in 1..Len(tickerList) |->
                          hasResults(agentSignals, agentKeys, tickerList[m])],
             detailed |-> [n \in 1..Len(agentKeys) |-> [m \in 1..Len(tickerList) |->
                            DetailBlock(agentSignals, agentKeys[n], tickerList[m])]]])
  /\ UNCHANGED <<appVars, formVars, agentNodeData, prominent, watchVars>>

\* the props the table is rendered with
TableAgentLists == {<<"warren_buffett">>, PropAgents, <<"risk_manager">>, <<"risk_management">>}
TableTickers == SubSeq(PropTickers, 1, 2)
WireKeys == {"warren_buffett_agent", "risk_manager_agent", "risk_management_agent"}
\* an analyst sends results with a signal, the risk agent sends position limits
ResultOf(key) == IF key = "warren_buffett_agent" THEN SignalResult ELSE RiskResult
AnalystSignalInputs ==
  {[key \in ks |-> [ticker \in ts[key] |-> ResultOf(key)]] :
     ks \in SUBSET WireKeys, ts \in [WireKeys -> SUBSET Range(TableTickers)]}

NextTable ==
  \E agentKeys \in TableAgentLists : \E agentSignals \in AnalystSignalInputs :
    RenderTable(agentKeys, TableTickers, agentSignals)

SpecTable == InitLoaded /\ [][NextTable]_vars

\* ------------------------------------------------ App.tsx: the watchlist
\* most tickers the watchlist holds
MaxWatchlist == 3

\* Array.prototype.includes
Includes(list, x) == \E n \in 1..Len(list) : list[n] = x

\* a variant of the add that does not look the ticker up in the watchlist
handleAddToWatchlistNoLookup(list, input) ==
  LET newTicker == toUpperCase(Trim(input))
  IN IF newTicker # <<>>
     THEN [watchlist |-> Append(list, newTicker), monitorTickerInput |-> <<>>, returned |-> TRUE]
     ELSE [watchlist |-> list, monitorTickerInput |-> input, returned |-> FALSE]

\* handleAddToWatchlist: the watchlist and the input it sets, the value it returns
handleAddToWatchlist(list, input) ==
  LET newTicker == toUpperCase(Trim(input))
  IN IF newTicker # <<>> /\ ~Includes(list, newTicker)
     THEN [watchlist |-> Append(list, newTicker), monitorTickerInput |-> <<>>, returned |-> TRUE]
     ELSE [watchlist |-> list, monitorTickerInput |-> input, returned |-> FALSE]

\* watchlist.filter(ticker => ticker !== tickerToRemove)
RECURSIVE FilterOut(_, _)
FilterOut(list, tickerToRemove) ==
  IF list = <<>> THEN <<>>
  ELSE (IF list[1] # tickerToRemove THEN <<list[1]>> ELSE <<>>)
       \o FilterOut(Tail(list), tickerToRemove)

\* the record kept of an add
AddRecord(input, before, after, returned, feedback) ==
  [input |-> input, before |-> before, after |-> after,
   returned |-> returned, feedback |-> feedback]

\* the onChange of the input: setMonitorTickerInput(e.target.value.toUpperCase())
TypeTicker(value) ==
  /\ monitorTickerInput' = toUpperCase(value)
  /\ UNCHANGED <<appVars, formVars, agentNodeData, prominent, resultsTable, watchlist, lastAdd>>

\* onAddToWatchlist is called
AddToWatchlist ==
  /\ Len(watchlist) < MaxWatchlist
  /\ LET r == handleAddToWatchlist(watchlist, monitorTickerInput)
     IN /\ watchlist' = r.watchlist
        /\ monitorTickerInput' = r.monitorTickerInput
        /\ lastAdd' = Some(AddRecord(monitorTickerInput, watchlist, r.watchlist,
                                     Some(r.returned), None))
  /\ UNCHANGED <<appVars, formVars, agentNodeData, prominent, resultsTable>>

\* handleAddClick of MonitorView: its own checks, then onAddToWatchlist
handleAddClick ==
  /\ Len(watchlist) < MaxWatchlist
  /\ LET currentInput == toUpperCase(Trim(monitorTickerInput))
         r == handleAddToWatchlist(watchlist, monitorTickerInput)
     IN IF currentInput = <<>>
        THEN /\ lastAdd' = Some(AddRecord(monitorTickerInput, watchlist, watchlist, None,
                                          Some("Please enter a ticker symbol.")))
             /\ UNCHANGED <<watchlist, monitorTickerInput>>
        ELSE IF Includes(watchlist, currentInput)
        THEN /\ lastAdd' = Some(AddRecord(monitorTickerInput, watchlist, watchlist, None,
                                          Some("is already in the watchlist.")))
             /\ UNCHANGED <<watchlist, monitorTickerInput>>
        ELSE /\ watchlist' = r.watchlist
             /\ monitorTickerInput' = r.monitorTickerInput
             /\ lastAdd' = Some(AddRecord(monitorTickerInput, watchlist, r.watchlist,
                                          Some(r.returned),
                                          Some(IF r.returned THEN "added to watchlist."
                                               ELSE "Failed to add")))
  /\ UNCHANGED <<appVars, formVars, agentNodeData, prominent, resultsTable>>

\* handleRemoveFromWatchlist, from the remove button of a row
handleRemoveFromWatchlist(tickerToRemove) ==
  /\ watchlist' = FilterOut(watchlist, tickerToRemove)
  /\ UNCHANGED <<appVars, formVars, agentNodeData, prominent, resultsTable,
                 monitorTickerInput, lastAdd>>

\* what is typed into the input: spaces and lower-case letters
TypedValues == {s \in TickerInputs : \A n \in 1..Len(s) : s[n] \in {SP, "a"}}

NextWatchlist ==
  \/ \E value \in TypedValues : TypeTicker(value)
  \/ AddToWatchlist
  \/ handleAddClick
  \/ \E n \in 1..Len(watchlist) : handleRemoveFromWatchlist(watchlist[n])

SpecWatchlist == InitLoaded /\ [][NextWatchlist]_vars

\* ------------------------------------------------------------- properties
\* the "SSE Event:" logs of all runs, in the order of the runs
RECURSIVE AllDelivered(_)
AllDelivered(rs) == IF rs = <<>> THEN <<>> ELSE rs[1].delivered \o AllDelivered(Tail(rs))

\* a logged event that line 249 lets through to the merge
IsMerge(d) ==
  /\ d[1] = <<"complete">>
  /\ ~JsonValue(d[2]).isNull
  /\ JsonValue(d[2]).data # None
  /\ JsonValue(d[2]).data[1].analyst_signals # None

\* the (ticker, agent signals) pairs the merges of a log wrote, in order
RECURSIVE Writes(_)
Writes(log) ==
  IF log = <<>> THEN <<>>
  ELSE (IF IsMerge(log[1]) THEN JsonValue(log[1][2]).data[1].analyst_signals[1] ELSE <<>>)
       \o Writes(Tail(log))

\* the position of the last write to a ticker
LastWrite(w, ticker) ==
  CHOOSE i \in 1..Len(w) : w[i].k = ticker /\ \A j \in 1..Len(w) : w[j].k = ticker => j <= i

\* C1: after any sequence of complete-event merges under the on-demand key
\* the dataset holds exactly one entry per merged ticker under that key, and
\* the entry is the one built from the last merge that named the ticker.
C1_OneEntryPerTickerLastWins ==
  LET items == OnDemandItems(allAnalysisData)
      w == Writes(AllDelivered(runs))
  IN /\ NoDup([i \in 1..Len(items) |-> items[i].ticker])
     /\ {items[i].ticker : i \in 1..Len(items)} = {w[i].k : i \in 1..Len(w)}
     /\ \A i \in 1..Len(items) :
          items[i] = NewItem(items[i].ticker, w[LastWrite(w, items[i].ticker)].v)

\* a ticker was merged twice with different content, in two different runs
C1_Witness ==
  /\ Len(runs) = 2
  /\ Writes(runs[1].delivered) # <<>>
  /\ \E i \in 1..Len(Writes(runs[2].delivered)) :
       /\ Writes(runs[2].delivered)[i].k = Writes(runs[1].delivered)[1].k
       /\ Writes(runs[2].delivered)[i].v # Writes(runs[1].delivered)[1].v

\* the frames of a stream are well formed but for exactly one
OneMalformedFrame(frames) == Cardinality({n \in 1..Len(frames) : frames[n].bad}) = 1

\* the well-formed frames after the malformed one
FramesAfterBad(frames) ==
  LET b == CHOOSE n \in 1..Len(frames) : frames[n].bad
  IN [n \in 1..(Len(frames) - b) |-> <<<<frames[b + n].type>>, frames[b + n].data>>]

\* s ends with t
EndsWith(s, t) == Len(t) <= Len(s) /\ SubSeq(s, Len(s) - Len(t) + 1, Len(s)) = t

\* C2: a stream with one malformed frame among valid frames leaves the same
\* dataset as the stream without that frame, and the frames after the
\* malformed one are still processed.
C2_MalformedFrameResilience ==
  \A i \in 1..Len(runs) :
    (runs[i].pc = "done" /\ OneMalformedFrame(runs[i].frames))
      => /\ allAnalysisData = twinData
         /\ EndsWith(runs[i].delivered, FramesAfterBad(runs[i].frames))

\* the first error frame of a frame list, 0 when there is none
FirstErrorFrame(frames) ==
  LET hits == {n \in 1..Len(frames) : frames[n].type = "error" /\ ~frames[n].bad}
  IN IF hits = {} THEN 0 ELSE CHOOSE n \in hits : \A m \in hits : n <= m

\* the message an error frame records
ErrorMessageOf(f) ==
  IF JsonValue(f.data).message # None THEN JsonValue(f.data).message ELSE Some(DEFAULT_ERROR)

\* C3: an error event received at any point of a run sets the run's status to
\* ERROR with the message recorded (the dataset entries merged before stay).
C3_ErrorEventSetsError ==
  \A i \in 1..Len(runs) :
    (runs[i].pc = "done" /\ FirstErrorFrame(runs[i].frames) > 0)
      => /\ analysisError = ErrorMessageOf(runs[i].frames[FirstErrorFrame(runs[i].frames)])
         /\ \A n \in 1..Len(Writes(runs[i].delivered)) :
              FindIndex(OnDemandItems(allAnalysisData), Writes(runs[i].delivered)[n].k) > 0

\* what the handler logs when the whole text arrives as one chunk
DeliveredInOneChunk(text) ==
  ProcessChunk(LoopState(<<>>, NullData, None, FALSE, <<>>, <<>>), text).delivered

\* C8: the frames delivered depend only on the stream text, not on how the
\* transport cuts it into chunks.
C8_ChunkingIndependent ==
  \A i \in 1..Len(runs) :
    runs[i].pc = "done" =>
      runs[i].delivered = DeliveredInOneChunk(Encode(runs[i].frames, runs[i].sep))

\* C9: once the caller has cancelled, no frame that arrives later changes the
\* status or the dataset, and the run stays RUNNING.
C9_CancelStopsProcessing ==
  [][cancelRequested =>
       /\ allAnalysisData' = allAnalysisData
       /\ analysisError' = analysisError
       /\ isLoadingAnalysis' = isLoadingAnalysis]_vars

\* C6: a run request made while a run is RUNNING is rejected with
\* a local validation error.
C6_SecondRunRejectedWithError ==
  [][(runCalls' = runCalls + 1 /\ isLoadingAnalysis) => analysisError' # None]_vars

\* the state a cell of the matrix is displayed in
DisplayedState(data, n, m) == getCellStatus(data, PropTickers, PropAgents[n], PropTickers[m])

\* C4: once a cell is displayed COMPLETE or ERROR, no later progress event
\* changes the state it is displayed in.
C4_TerminalCellsAreFinal ==
  [][\A n \in 1..Len(PropAgents) : \A m \in 1..Len(PropTickers) :
       DisplayedState(agentNodeData, n, m) \in {"COMPLETE", "ERROR"}
         => DisplayedState(agentNodeData', n, m) = DisplayedState(agentNodeData, n, m)]_vars

\* C5: within a run the progress percentage never decreases as progress
\* events are applied in arrival order.
C5_PercentMonotone ==
  [][getAnalysisProgress(agentNodeData', PropAgents, PropTickers)
       >= getAnalysisProgress(agentNodeData, PropAgents, PropTickers)]_vars

\* C7: no request is issued whose body has an empty tickers array or an empty
\* selected_agents array, whatever was typed into the form.
C7_NoEmptyRequest ==
  lastRequest # None
    => Len(lastRequest[1].tickers) > 0 /\ Len(lastRequest[1].selected_agents) > 0

\* C10: after an ErrorEvent has been received, no later frame of the same
\* stream changes the error shown or the final result recorded.
C10_ErrorFrameIsTerminal ==
  (srf.pc \in {"read", "done"} /\ srf.atError # None)
    => /\ srfError = srf.atError[1].error
       /\ finalResult = srf.atError[1].finalResult

\* C11: when the request fails before any frame is received (fetch rejects,
\* or the response is not 2xx), the run ends with an error recorded, it is no
\* longer loading, and the dataset is what it was.
C11_TransportFailureIsError ==
  [][\A i \in 1..Len(runs) :
       (runs[i].pc = "fetch" /\ runs'[i].pc = "done")
         => /\ analysisError' # None
            /\ ~isLoadingAnalysis'
            /\ allAnalysisData' = allAnalysisData]_vars

\* the second request failed after the first run had merged entries
C11_Witness ==
  /\ Len(runs) = 2
  /\ runs[2].pc = "done" /\ runs[2].frames = <<>>
  /\ OnDemandItems(allAnalysisData) # <<>>
  /\ analysisError = Some("Failed to start analysis: 500 boom")
  /\ ~isLoadingAnalysis

\* C12: after a stream whose only defect is a payload that does not parse as
\* JSON, the form shows no error: the bad message is dropped and the run's
\* error stays unset.
C12_MalformedFrameNotEscalated ==
  (srf.pc = "done" /\ srf.stream \in {EncodeEvents(p) : p \in MalformedOnlyLists})
    => srfError = None

\* C13: every started run leaves the running state: whether the stream ends,
\* an error frame arrives, the request fails or reading the stream throws, the
\* loading flag is cleared and the run has ended as finished or failed.
C13_RunEventuallyStops ==
  \A i \in 1..MaxRuns :
    (Len(runs) >= i /\ runs[i].pc \in {"fetch", "read"})
      ~> (Len(runs) >= i /\ runs[i].pc \in {"done", "failed"} /\ ~isLoadingAnalysis)

\* reading the stream threw after a frame had been handled, and the run stopped
C13_Witness ==
  \E i \in 1..Len(runs) :
    /\ runs[i].pc = "failed"
    /\ runs[i].delivered # <<>>
    /\ ~isLoadingAnalysis
    /\ analysisError # None

\* the tickers of the entries under the on-demand key
OnDemandTickers(data) ==
  {OnDemandItems(data)[n].ticker : n \in 1..Len(OnDemandItems(data))}

\* C14: an entry merged from a complete event stays in the dataset: no later
\* write, of the run or of the initial load of the cached results, removes a
\* ticker from the on-demand entries.
C14_OnDemandEntriesPersist ==
  [][OnDemandTickers(allAnalysisData) \subseteq OnDemandTickers(allAnalysisData')]_vars

\* the tickers a complete payload names under data.analyst_signals
PayloadTickers(j) ==
  LET v == JsonValue(j)
  IN IF ~v.isNull /\ v.data # None /\ v.data[1].analyst_signals # None
     THEN {v.data[1].analyst_signals[1][n].k : n \in 1..Len(v.data[1].analyst_signals[1])}
     ELSE {}

\* C15: when the stream of a run was a start event followed by a complete
\* event whose payload carries analyst_signals, then once the stream has ended
\* every ticker of the payload has an entry under the on-demand key and the
\* run is no longer loading.
C15_StartCompleteMerged ==
  \A i \in 1..Len(runs) :
    (/\ runs[i].pc = "done"
     /\ Len(runs[i].frames) = 2
     /\ runs[i].frames[1].type = "start"
     /\ runs[i].frames[2].type = "complete"
     /\ PayloadTickers(runs[i].frames[2].data) # {})
      => /\ PayloadTickers(runs[i].frames[2].data) \subseteq OnDemandTickers(allAnalysisData)
         /\ ~isLoadingAnalysis

\* C16: once a complete event whose analyst_signals maps the agent key
\* warren_buffett_agent to the ticker AAPL to {bullish, 80} has been handled,
\* the on-demand entries hold an entry with ticker AAPL whose agent_signals is
\* the one element of that agent, with its signal and confidence.
C16_AgentKeyedSignalsBecomeTickerEntry ==
  (\E i \in 1..Len(runs) : \E n \in 1..Len(runs[i].delivered) :
      runs[i].delivered[n] = <<(<<"complete">>), J_WIRE>>)
    => \E n \in 1..Len(OnDemandItems(allAnalysisData)) :
         /\ OnDemandItems(allAnalysisData)[n].ticker = "AAPL"
         /\ OnDemandItems(allAnalysisData)[n].agent_signals =
              <<[agent_name |-> "warren_buffett_agent", signal |-> Some("bullish"),
                 confidence |-> Some(80), reasoning |-> None]>>

\* the two names of each frame type
TypeNames ==
  {<<"StartEvent", "start">>, <<"ProgressUpdateEvent", "progress">>,
   <<"CompleteEvent", "complete">>, <<"ErrorEvent", "error">>}

\* C17: in every state of a run, a frame named StartEvent, ProgressUpdateEvent,
\* CompleteEvent or ErrorEvent is handled exactly like the frame of the same
\* payload named start, progress, complete or error.
C17_BothNamingConventions ==
  LET st == LoopState(<<>>, allAnalysisData, analysisError, FALSE, <<>>, <<>>)
  IN \A names \in TypeNames : \A j \in JsonTexts :
       Dispatch(st, <<names[1]>>, JsonValue(j)) = Dispatch(st, <<names[2]>>, JsonValue(j))

\* C18: when a sequence of frames with JSON payloads, none of them an error
\* frame, was encoded in the wire format (event: <type>, line feed,
\* data: <json>, blank line) and the run has read the text to its end, the
\* frames it parsed are the frames encoded: same order, same type and payload.
C18_EncodeParseRoundTrip ==
  \A i \in 1..Len(runs) :
    (/\ runs[i].pc = "done"
     /\ runs[i].sep = SEP_LF
     /\ \A n \in 1..Len(runs[i].frames) :
          ~runs[i].frames[n].bad /\ runs[i].frames[n].type # "error")
      => runs[i].delivered =
           [n \in 1..Len(runs[i].frames) |-> <<(<<runs[i].frames[n].type>>), runs[i].frames[n].data>>]

\* the signals recorded for a ticker, in the order they are seen: for each
\* style and each item of the ticker, the item's own signal if it has one,
\* then its agents' signals
RecordedOfItem(item, ticker) ==
  IF item.ticker # ticker THEN <<>>
  ELSE (IF item.signal # None
        THEN <<[signal |-> item.signal, confidence |-> item.confidence]>> ELSE <<>>)
       \o [n \in 1..Len(item.agent_signals) |->
             [signal |-> item.agent_signals[n].signal,
              confidence |-> item.agent_signals[n].confidence]]

RECURSIVE RecordedOfItems(_, _)
RecordedOfItems(items, ticker) ==
  IF items = <<>> THEN <<>>
  ELSE RecordedOfItem(items[1], ticker) \o RecordedOfItems(Tail(items), ticker)

RECURSIVE RecordedOfStyles(_, _)
RecordedOfStyles(entries, ticker) ==
  IF entries = <<>> THEN <<>>
  ELSE RecordedOfItems(entries[1].data, ticker) \o RecordedOfStyles(Tail(entries), ticker)

Recorded(ticker, data) == IF data.isNull THEN <<>> ELSE RecordedOfStyles(StyleValues(data), ticker)

\* C19: the prominent signal shown for a ticker is the recorded signal with
\* the highest confidence, the first seen among those of equal confidence;
\* signals without a confidence value are passed over whenever one has a value.
C19_ProminentIsHighestConfidence ==
  (prominent # None /\ ~isLoadingAnalysis) =>
    LET r == Recorded(prominent[1].ticker, allAnalysisData)
        valued == {n \in 1..Len(r) : r[n].confidence # None}
    IN valued # {} =>
         \E n \in valued :
           /\ \A k \in valued : r[k].confidence[1] <= r[n].confidence[1]
           /\ \A k \in valued : r[k].confidence[1] = r[n].confidence[1] => n <= k
           /\ prominent[1].shown = [signal |-> r[n].signal, confidence |-> r[n].confidence]

\* the cells the matrix shows as completed: every cell of a COMPLETE agent,
\* and the cells of an IN_PROGRESS agent before its current ticker
CompletedCells ==
  {c \in (1..Len(PropAgents)) \X (1..Len(PropTickers)) :
     getCellStatus(agentNodeData, PropTickers, PropAgents[c[1]], PropTickers[c[2]]) = "COMPLETE"}

\* C20: the percentage shown is round(100 * completed / (agents x tickers)),
\* where the completed cells are all cells of a COMPLETE agent and, for an
\* IN_PROGRESS agent, exactly the tickers before its current one.
C20_PercentCountsCompletedCells ==
  getAnalysisProgress(agentNodeData, PropAgents, PropTickers)
    = RoundPercent(Cardinality(CompletedCells), Len(PropAgents) * Len(PropTickers))

\* the ticker lists of the requests looked at: two tickers, and all three
RequestTickerLists == {SubSeq(PropTickers, 1, 2), PropTickers}

\* C21: before any progress event every cell is IDLE; after the first
\* progress event, of status IN_PROGRESS for an agent and a ticker of the
\* request, that cell is IN_PROGRESS and the percentage is greater than 0.
C21_FirstProgressEvent ==
  /\ [](agentNodeData = NoNodes =>
          \A tks \in RequestTickerLists : \A n \in 1..Len(PropAgents) : \A m \in 1..Len(tks) :
            getCellStatus(agentNodeData, tks, PropAgents[n], tks[m]) = "IDLE")
  /\ [][\A tks \in RequestTickerLists : \A n \in 1..Len(PropAgents) : \A m \in 1..Len(tks) :
          (/\ agentNodeData = NoNodes
           /\ agentNodeData' = ApplyProgress(NoNodes, PropAgents[n], Some(tks[m]), "IN_PROGRESS"))
            => /\ getCellStatus(agentNodeData', tks, PropAgents[n], tks[m]) = "IN_PROGRESS"
               /\ getAnalysisProgress(agentNodeData', PropAgents, tks) > 0]_vars

\* the first progress event said that warren_buffett works on AAPL
C21_Witness ==
  agentNodeData = ("warren_buffett" :> NodeRecord("IN_PROGRESS", Some("AAPL")))

\* C22: a progress event of status ERROR for one agent and ticker changes
\* the displayed state of that cell only: every other cell, the same agent's
\* other tickers included, is displayed as before.
C22_ErrorChangesOneCell ==
  [][\A n \in 1..Len(PropAgents) : \A m \in 1..Len(PropTickers) :
       (/\ agentNodeData' # agentNodeData
        /\ agentNodeData' = ApplyProgress(agentNodeData, PropAgents[n], Some(PropTickers[m]), "ERROR"))
         => \A n2 \in 1..Len(PropAgents) : \A m2 \in 1..Len(PropTickers) :
              <<n2, m2>> # <<n, m>>
                => DisplayedState(agentNodeData', n2, m2) = DisplayedState(agentNodeData, n2, m2)]_vars

\* C23: a run of the form never ends recorded both as COMPLETE, with a final
\* result stored, and as ERROR, with an error stored.
C23_NotBothCompleteAndError ==
  srf.pc = "done" => ~(finalResult # None /\ srfError # None)

\* C24: once a complete event has been handled, each ticker its payload has a
\* decision for has an on-demand entry whose primary signal and confidence
\* are the decision's action and confidence.
C24_DecisionIsPrimarySignal ==
  \A i \in 1..Len(runs) : \A n \in 1..Len(runs[i].delivered) :
    runs[i].delivered[n][1] = <<"complete">> =>
      LET decisions == Decisions(runs[i].delivered[n][2])
          items == OnDemandItems(allAnalysisData)
      IN \A d \in 1..Len(decisions) :
           \E k \in 1..Len(items) :
             /\ items[k].ticker = decisions[d].k
             /\ items[k].signal = Some(decisions[d].v.action)
             /\ items[k].confidence = Some(decisions[d].v.confidence)

\* C25: the tickers array of every request the form issues has no ticker
\* twice and holds only tickers in upper case, whatever was typed.
C25_TickersDedupedUppercase ==
  lastRequest # None =>
    /\ NoDup(lastRequest[1].tickers)
    /\ \A n \in 1..Len(lastRequest[1].tickers) :
         lastRequest[1].tickers[n] = toUpperCase(lastRequest[1].tickers[n])

\* the event types the handler has a branch for
RecognizedTypes == {<<"start">>, <<"progress">>, <<"complete">>, <<"error">>}

\* the frames a step has newly logged for run i
NewlyDelivered(i) ==
  SubSeq(runs'[i].delivered, Len(runs[i].delivered) + 1, Len(runs'[i].delivered))

\* C26: a frame of an unrecognized type is ignored.  A step that handles only
\* such frames leaves the loading flag, the error and the dataset as they
\* were and does not stop the reading; and the frames after it are still
\* processed: when the reading of the stream of an unrecognized frame followed
\* by an error frame ends, both frames have been handled and the error frame
\* has set the error.
C26_UnknownTypeIgnored ==
  [][\A i \in 1..Len(runs) :
       /\ (/\ Len(runs') = Len(runs)
           /\ NewlyDelivered(i) # <<>>
           /\ \A n \in 1..Len(NewlyDelivered(i)) : NewlyDelivered(i)[n][1] \notin RecognizedTypes)
            => /\ allAnalysisData' = allAnalysisData
               /\ analysisError' = analysisError
               /\ isLoadingAnalysis' = isLoadingAnalysis
               /\ runs'[i].cancelled = runs[i].cancelled
       /\ (/\ Len(runs') = Len(runs)
           /\ runs[i].frames = FramesUnknown
           /\ runs[i].pc = "read" /\ runs'[i].pc = "done")
            => /\ runs'[i].delivered = <<(<<(<<"ping">>), J_A1>>), (<<(<<"error">>), J_EMPTY>>)>>
               /\ analysisError' = Some(DEFAULT_ERROR)]_vars

\* the frames of a list as the pairs the handler logs
FramePairs(frames) == [n \in 1..Len(frames) |-> <<(<<frames[n].type>>), frames[n].data>>]

\* s can be obtained from t by leaving elements out
RECURSIVE IsSubsequence(_, _)
IsSubsequence(s, t) ==
  IF s = <<>> THEN TRUE
  ELSE IF t = <<>> THEN FALSE
  ELSE IF s[1] = t[1] THEN IsSubsequence(Tail(s), Tail(t))
  ELSE IsSubsequence(s, Tail(t))

\* C27: each frame is handled with the payload that follows its own event
\* line, also when several frames of one chunk have identical event lines:
\* the (type, payload) pairs handled so far are, in order, pairs of the frames
\* sent, each used at most once.
C27_FrameHandledWithOwnPayload ==
  \A i \in 1..Len(runs) :
    IsSubsequence(runs[i].delivered, FramePairs(runs[i].frames))

\* the tickers named by the complete frames of a log that reach the merge
RECURSIVE NamedTickers(_)
NamedTickers(log) ==
  IF log = <<>> THEN {}
  ELSE (IF IsMerge(log[1]) THEN PayloadTickers(log[1][2]) ELSE {}) \cup NamedTickers(Tail(log))

\* the items whose ticker is not in the set, in their order
RECURSIVE ItemsNotNaming(_, _)
ItemsNotNaming(items, named) ==
  IF items = <<>> THEN <<>>
  ELSE (IF items[1].ticker \in named THEN <<>> ELSE <<items[1]>>)
       \o ItemsNotNaming(Tail(items), named)

\* C28: a step of a run that merges complete events leaves the entries of
\* every source key other than the on-demand key as they were, adds no other
\* key, and leaves the on-demand entries of the tickers the events do not name
\* unchanged and in their previous relative order.
C28_MergeLeavesOthersUnchanged ==
  [][\A i \in 1..Len(runs) :
       (Len(runs') = Len(runs) /\ NamedTickers(NewlyDelivered(i)) # {})
         => LET named == NamedTickers(NewlyDelivered(i))
                others == DOMAIN allAnalysisData.styles \ {ON_DEMAND_STYLE_KEY}
            IN /\ DOMAIN allAnalysisData'.styles \ {ON_DEMAND_STYLE_KEY} = others
               /\ \A key \in others : allAnalysisData'.styles[key] = allAnalysisData.styles[key]
               /\ ItemsNotNaming(OnDemandItems(allAnalysisData'), named)
                    = ItemsNotNaming(OnDemandItems(allAnalysisData), named)]_vars

\* the cached style is still there after two merges, and the entry of MSFT,
\* which the second merge did not name, is still first and as the first merge
\* wrote it
C28_Witness ==
  /\ CACHE_KEY \in DOMAIN allAnalysisData.styles
  /\ allAnalysisData.styles[CACHE_KEY].data = <<CachedItem>>
  /\ Len(OnDemandItems(allAnalysisData)) = 2
  /\ OnDemandItems(allAnalysisData)[1] = NewItem("MSFT", <<KV("technicals_agent", Sig("neutral", 50))>>)
  /\ OnDemandItems(allAnalysisData)[2] = NewItem("AAPL", <<KV("sentiment_analyst_agent", Sig("bearish", 60))>>)

\* the registry's risk agent
RISK_AGENT_KEY == "risk_manager"

\* C29: for every selected agent whose key is in the registry, a result
\* received for a ticker under the key formed by the agent's key and the
\* suffix _agent is shown by the rendered table, in the summary cell and in
\* the detailed view: a result with a signal for every agent, and the result
\* of the registry's risk agent, which carries remaining_position_limit and
\* no signal.
C29_RegistryAgentResultShown ==
  resultsTable # None =>
    LET t == resultsTable[1]
    IN \A n \in 1..Len(t.selectedAgents) : \A m \in 1..Len(t.tickers) :
         LET agentKey == t.selectedAgents[n]
             received == AgentResults(t.analyst_signals, agentKey \o "_agent", t.tickers[m])
         IN (/\ getAgentInfo(agentKey) # None
             /\ received # None
             /\ \/ received[1].signal # None
                \/ agentKey = RISK_AGENT_KEY /\ received[1].remaining_position_limit # None)
              => /\ t.summary[n][m].kind # "dash"
                 /\ t.cards[m]
                 /\ t.detailed[n][m] # "none"

\* C30: after any sequence of adds and removes the watchlist has no duplicate
\* ticker and every element is a non-empty, trimmed, upper-case string; and an
\* add whose input is empty after trimming, or names a ticker already in the
\* watchlist, does not return true (the handler, when called, returns false)
\* and leaves the watchlist unchanged.
C30_WatchlistWellFormed ==
  /\ NoDup(watchlist)
  /\ \A n \in 1..Len(watchlist) :
       /\ watchlist[n] # <<>>
       /\ Trim(watchlist[n]) = watchlist[n]
       /\ toUpperCase(watchlist[n]) = watchlist[n]
  /\ lastAdd # None =>
       LET a == lastAdd[1]
           newTicker == toUpperCase(Trim(a.input))
       IN /\ (newTicker = <<>> \/ Includes(a.before, newTicker))
             => a.returned # Some(TRUE) /\ a.after = a.before
          /\ (a.returned = None) => (newTicker = <<>> \/ Includes(a.before, newTicker))

\* a ticker was added, another removed, and the handler was then called with
\* an input that names the added ticker again: it returned false
C30_Witness ==
  /\ watchlist = <<InitialWatchlist[1], (<<"A">>)>>
  /\ lastAdd # None
  /\ lastAdd[1].input = <<SP, "A">>
  /\ lastAdd[1].returned = Some(FALSE)
  /\ lastAdd[1].after = watchlist

====
